---- MODULE Spec2Model ----
(***************************************************************************)
(* Activity-reconstruction pipeline of monitor-xs-ip2:                     *)
(*   Measurement.get_net_counts  (peak matcher)                            *)
(*   Measurement.calculate_cooling_time                                    *)
(*   Radionuclide.calculate_activity / calculate_eob_act                   *)
(*   Target.load_measurements / calculate_mean_act_eob                     *)
(*                                                                         *)
(* Floating-point values are modelled as extended exact numbers            *)
(*   (n/d) * sqrt(s)   |   +inf, -inf   |   nan   |   DBL_MAX              *)
(* with the IEEE-754 / NumPy rules for the special values (x/0 = inf,      *)
(* 0/0 = nan, 0*inf = nan, nan != 0 ...).  Energies are integers in units  *)
(* of half an energy unit, so the matcher's tolerance 1.0 is Tol = 2.      *)
(***************************************************************************)
EXTENDS Integers, Sequences, FiniteSets, TLC

\* ------------------------------------------------------------------------
\* Bounds of the model
\* ------------------------------------------------------------------------
MaxPeaks == 3   \* peaks in the report of a single-measurement directory
MaxMeas == 3    \* report files in a multi-measurement directory
MaxItems == 2    \* items a collection holds, and items of an argument
MaxName == 4     \* characters of the nuclide name asked of the cross-section predictor
MaxFiles == 2   \* report files in a directory of reports of differing form
MaxSecs == 2    \* seconds between the origin and a timestamp given to time_difference
MaxHalfLife == 2   \* seconds of a half-life given to get_lambda_err
MaxTargets == 2    \* targets of a TargetList
MaxReports == 2    \* report files naming one target

\* ------------------------------------------------------------------------
\* Numbers
\* ------------------------------------------------------------------------
Abs(i) == IF i < 0 THEN -i ELSE i

Sgn(i) == IF i < 0 THEN -1 ELSE IF i > 0 THEN 1 ELSE 0

RECURSIVE GCD(_, _)
GCD(a, b) == IF b = 0 THEN a ELSE GCD(b, a % b)

\* no value: evaluating it stops the model checker (a result the number
\* representation cannot hold must never be produced silently)
Unrepresentable == CHOOSE x \in {} : TRUE

NaN == [k |-> "nan", n |-> 0, d |-> 1, s |-> 1]

Inf(sign) == [k |-> "inf", n |-> sign, d |-> 1, s |-> 1]

\* the largest finite double, what nan_to_num substitutes for +inf
DblMax == [k |-> "max", n |-> 1, d |-> 1, s |-> 1]

\* (n/d)*sqrt(s) in lowest terms, d > 0, s >= 1 square-free
Norm(n, d, s) ==
    IF n = 0 THEN [k |-> "fin", n |-> 0, d |-> 1, s |-> 1]
    ELSE LET g == GCD(Abs(n), Abs(d))
         IN  [k |-> "fin", n |-> (Sgn(d) * n) \div g, d |-> Abs(d) \div g, s |-> s]

Rat(n, d) == Norm(n, d, 1)

Int2Num(i) == Norm(i, 1, 1)

Zero == Int2Num(0)

One == Int2Num(1)

IsNaN(x) == x.k = "nan"

IsZero(x) == x.k = "fin" /\ x.n = 0

IsFinite(x) == x.k = "fin"

Sign(x) == IF x.k = "nan" THEN 0 ELSE Sgn(x.n)

Neg(x) == IF x.k = "nan" THEN NaN ELSE [x EXCEPT !.n = -x.n]

Mul(a, b) ==
    IF a.k = "max" \/ b.k = "max" THEN Unrepresentable
    ELSE IF a.k = "nan" \/ b.k = "nan" THEN NaN
    ELSE IF a.k = "inf" \/ b.k = "inf"
         THEN IF IsZero(a) \/ IsZero(b) THEN NaN ELSE Inf(Sign(a) * Sign(b))
    ELSE LET g == GCD(a.s, b.s)
         IN  Norm(a.n * b.n * g, a.d * b.d, (a.s \div g) * (b.s \div g))

\* 1/b for b # 0
Recip(b) ==
    IF b.k = "max" THEN Unrepresentable
    ELSE IF b.k = "nan" THEN NaN
    ELSE IF b.k = "inf" THEN Zero
    ELSE Norm(Sgn(b.n) * b.d, Abs(b.n) * b.s, b.s)

\* NumPy division: x/0 = +-inf, 0/0 = nan (a RuntimeWarning, no exception)
Div(a, b) ==
    IF a.k = "max" THEN Unrepresentable
    ELSE IF IsZero(b)
         THEN IF a.k = "nan" \/ IsZero(a) THEN NaN ELSE Inf(Sign(a))
    ELSE Mul(a, Recip(b))

Add(a, b) ==
    IF a.k = "max" \/ b.k = "max" THEN Unrepresentable
    ELSE IF a.k = "nan" \/ b.k = "nan" THEN NaN
    ELSE IF a.k = "inf" /\ b.k = "inf" THEN (IF a.n = b.n THEN a ELSE NaN)
    ELSE IF a.k = "inf" THEN a
    ELSE IF b.k = "inf" THEN b
    ELSE IF IsZero(a) THEN b
    ELSE IF IsZero(b) THEN a
    ELSE IF a.s = b.s THEN Norm(a.n * b.d + b.n * a.d, a.d * b.d, a.s)
    ELSE Unrepresentable

Sub(a, b) == Add(a, Neg(b))

Sq(a) == Mul(a, a)

\* a > i for a rational a and an integer i
GtInt(a, i) == a.n > i * a.d

RECURSIVE RootParts(_, _, _, _)
\* m * g * g * s is constant; ends with m = 1: the square part g and the
\* square-free part s of a positive integer, by trial division from f on
RootParts(m, f, g, s) ==
    IF m = 1 THEN [g |-> g, s |-> s]
    ELSE IF f * f > m THEN [g |-> g, s |-> s * m]
    ELSE IF m % (f * f) = 0 THEN RootParts(m \div (f * f), f, g * f, s)
    ELSE IF m % f = 0 THEN RootParts(m \div f, f + 1, g, s * f)
    ELSE RootParts(m, f + 1, g, s)

\* np.sqrt: sqrt(n/d) = gn*sqrt(sn*sd) / (gd*sd)
Sqrt(a) ==
    IF a.k = "max" THEN Unrepresentable
    ELSE IF a.k = "nan" THEN NaN
    ELSE IF a.k = "inf" THEN (IF a.n > 0 THEN a ELSE NaN)
    ELSE IF a.n < 0 THEN NaN
    ELSE IF a.s # 1 THEN Unrepresentable
    ELSE IF a.n = 0 THEN a
    ELSE LET pn == RootParts(a.n, 2, 1, 1)
             pd == RootParts(a.d, 2, 1, 1)
         IN  Norm(pn.g, pd.g * pd.s, pn.s * pd.s)

\* exp overflows a double above 709 (result inf) and underflows below -745
ExpMax == 709

ExpMin == 745

\* np.exp on a rational argument.  The value of exp is replaced by a
\* rational stand-in P(x) = 1 + x + x*x/2 for x >= 0 and 1/P(-x) for x < 0:
\* it is positive, 1 exactly at 0, increasing, and exp(-x) = 1/exp(x).
ExpPoly(a) == Add(One, Add(a, Div(Sq(a), Int2Num(2))))

Exp(a) ==
    IF a.k = "max" THEN Unrepresentable
    ELSE IF a.k = "nan" THEN NaN
    ELSE IF a.k = "inf" THEN (IF a.n > 0 THEN a ELSE Zero)
    ELSE IF a.s # 1 THEN Unrepresentable
    ELSE IF GtInt(a, ExpMax) THEN Inf(1)
    ELSE IF GtInt(Neg(a), ExpMin) THEN Zero
    ELSE IF a.n < 0 THEN Recip(ExpPoly(Neg(a)))
    ELSE ExpPoly(a)

\* np.nan_to_num(x, nan=0.0): nan -> 0, +inf -> DBL_MAX, -inf -> -DBL_MAX
NanToNum(x) ==
    IF x.k = "nan" THEN Zero
    ELSE IF x.k = "inf" THEN [DblMax EXCEPT !.n = x.n]
    ELSE x

\* ------------------------------------------------------------------------
\* Reference data (the spreadsheets read at construction)
\* ------------------------------------------------------------------------
\* math.log(2), by a rational stand-in
Ln2 == Rat(7, 10)

\* fault injection: an hour is taken for a minute
UomFactorHourAsMinute(uom) ==
    CASE uom = "s" -> 1
      [] uom = "m" -> 60
      [] uom = "h" -> 60
      [] uom = "d" -> 60 * 60 * 24
      [] uom = "y" -> 60 * 60 * 24 * 365

UomFactor(uom) ==
    CASE uom = "s" -> 1
      [] uom = "m" -> 60
      [] uom = "h" -> 60 * 60
      [] uom = "d" -> 60 * 60 * 24
      [] uom = "y" -> 60 * 60 * 24 * 365

\* core/utils.get_lambda_err for the five units of measure
get_lambda_err(hf, err_hf, uom) ==
    LET tmp_hf == Mul(hf, Int2Num(UomFactor(uom)))
        tmp_err_hf == Mul(err_hf, Int2Num(UomFactor(uom)))
        Lambda == Div(Ln2, tmp_hf)
    IN  [Lambda |-> Lambda, err_Lambda |-> Div(Mul(Sq(Lambda), tmp_err_hf), Ln2)]

\* Radionuclide.__init__; act_eob_eval is the attribute
\* TargetList.evaluate_eob_activites sets, absent until then
Radionuclide(name, half_life, err_half_life, uom, g_line) ==
    LET l == get_lambda_err(half_life, err_half_life, uom)
    IN  [name |-> name, g_line |-> g_line,
         Lambda |-> l.Lambda, err_Lambda |-> l.err_Lambda,
         g_energies |-> << >>, intensities |-> << >>, err_intensities |-> << >>,
         net_counts |-> << >>, err_net_counts |-> << >>, nc_array |-> FALSE,
         act |-> << >>, err_act |-> << >>,
         act_eob |-> << >>, err_act_eob |-> << >>, eob_array |-> FALSE,
         mean_act_eob |-> Zero, err_mean_act_eob |-> Zero,
         act_eob_eval |-> [returned |-> FALSE, act_eob |-> 0]]

\* sheet "NuclideData": nuclide, half_life, err_half_life, uom, selected_g_line
NuclideData ==
    << [nuclide |-> "Zn-65", half_life |-> Rat(7, 10), err_half_life |-> Zero,
        uom |-> "s", selected_g_line |-> 10],
       [nuclide |-> "Na-22", half_life |-> Rat(7, 5), err_half_life |-> Rat(7, 50),
        uom |-> "s", selected_g_line |-> 9],
       [nuclide |-> "V-48", half_life |-> Rat(7, 10), err_half_life |-> Zero,
        uom |-> "s", selected_g_line |-> 11] >>

\* sheet "Material_NuclideInventory": the nuclides of a target material
NuclideInventory(tar_mat) ==
    IF tar_mat = "Cu" THEN {"Zn-65", "Na-22"} ELSE {"V-48"}

\* one sheet per nuclide: energy, intensity (percent), err_intensity.
\* The variant "zero_intensity" holds a selected line of intensity 0; in
\* the variant "missing_line" the sheet of Na-22 lacks the selected line.
GammaLines(variant, name) ==
    CASE name = "Zn-65" ->
           [energy |-> <<10, 12>>,
            intensity |-> <<IF variant = "zero_intensity" THEN Zero ELSE Int2Num(100),
                            Int2Num(50)>>,
            err_intensity |-> <<Zero, Int2Num(5)>>]
      [] name = "Na-22" ->
           [energy |-> <<IF variant = "missing_line" THEN 8 ELSE 9>>,
            intensity |-> <<Int2Num(100)>>,
            err_intensity |-> <<Int2Num(10)>>]
      [] OTHER ->
           [energy |-> <<11>>, intensity |-> <<Int2Num(100)>>,
            err_intensity |-> <<Zero>>]

Variants == {"regular", "zero_intensity", "zero_efficiency"}

RECURSIVE SelectRows(_, _)
SelectRows(rows, tar_mat) ==
    IF rows = << >> THEN << >>
    ELSE LET row == Head(rows)
             rest == SelectRows(Tail(rows), tar_mat)
         IN  IF row.nuclide \in NuclideInventory(tar_mat)
             THEN <<Radionuclide(row.nuclide, row.half_life, row.err_half_life,
                                 row.uom, row.selected_g_line)>> \o rest
             ELSE rest

\* the radionuclide list built by Measurement.__init__ (and, with the same
\* code, by Target.__init__): nuclides of the material, with their gamma lines
LoadRadionuclides(variant, tar_mat) ==
    LET rs == SelectRows(NuclideData, tar_mat)
    IN  [i \in 1..Len(rs) |->
            LET gl == GammaLines(variant, rs[i].name)
            IN  [rs[i] EXCEPT !.g_energies = gl.energy,
                              !.intensities = gl.intensity,
                              !.err_intensities = gl.err_intensity]]

\* RadionuclideList.__getitem__ with a Radionuclide (or name) key: the index
\* of the first item of that name, 0 for KeyError
IndexOf(list, name) ==
    IF \E i \in 1..Len(list) : list[i].name = name
    THEN CHOOSE i \in 1..Len(list) :
            /\ list[i].name = name
            /\ \A j \in 1..(i - 1) : list[j].name # name
    ELSE 0

\* ------------------------------------------------------------------------
\* Efficiency calibration
\* ------------------------------------------------------------------------
\* spectrometry.efficiency_fun: the fitted curve evaluated at one energy is a
\* pair (efficiency, error).  The fit is an input here: a calibrated
\* (detector, level) gives efficiency 1/10 +- 1/100; in the variant
\* "zero_efficiency" exp(Y_m) has underflowed to 0.  An unknown key raises
\* KeyError.
HPGe_calibration_params ==
    [d \in {<<"OIPA Lab 109">>, <<"OIPA Lab 35">>, <<"West HPGe - WILA">>} |->
        IF d = <<"OIPA Lab 109">>
        THEN {<<"200", " ", "cm">>, <<"150", " ", "cm">>, <<"100", " ", "cm">>,
              <<"50", " ", "cm">>}
        ELSE IF d = <<"OIPA Lab 35">>
             THEN {<<"Rille", "_", "2">>, <<"25Feb", "_", "Rille", "_", "2">>,
                   <<"Rille", "_", "6">>, <<"240927", "_", "Rille", "_", "6">>,
                   <<"Rille", "_", "9">>, <<"Rille", "_", "17">>,
                   <<"240916", "_", "Rille", "_", "17">>}
        ELSE {}]

\* fault injection: a pair without calibration gets the efficiency of a
\* calibrated one
efficiency_fun_AnyKey(variant, Ey_s, level, detector) ==
    IF variant = "zero_efficiency"
    THEN [exc |-> "none", eff |-> Zero, err_eff |-> Zero]
    ELSE [exc |-> "none", eff |-> Rat(1, 10), err_eff |-> Rat(1, 100)]

efficiency_fun(variant, Ey_s, level, detector) ==
    IF detector \notin DOMAIN HPGe_calibration_params
       \/ level \notin HPGe_calibration_params[detector]
    THEN [exc |-> "KeyError", eff |-> NaN, err_eff |-> NaN]
    ELSE IF variant = "zero_efficiency"
         THEN [exc |-> "none", eff |-> Zero, err_eff |-> Zero]
    ELSE [exc |-> "none", eff |-> Rat(1, 10), err_eff |-> Rat(1, 100)]

\* ------------------------------------------------------------------------
\* Report files (the inputs of a run) and spectrometry.Report
\* ------------------------------------------------------------------------
\* A string the code takes apart is a sequence of tokens; the separators
\* "\\", "/", "." and "_" are tokens of their own.  A report file is its
\* path and its lines; a line is the pattern it matches (kind) and what the
\* pattern's groups capture: a number (num), a date (time, and whether
\* strptime accepts it), a string (text) or the three columns of a peak row.
\* Timestamps are seconds on the clock whose origin is the end of the
\* irradiation.

Line(kind) ==
    [kind |-> kind, num |-> Zero, time |-> 0, valid |-> TRUE, text |-> << >>,
     energy |-> 0, net |-> Zero, uncert |-> Zero]

NumLine(kind, num) == [Line(kind) EXCEPT !.num = num]

DateLine(kind, time, valid) == [Line(kind) EXCEPT !.time = time, !.valid = valid]

TextLine(kind, text) == [Line(kind) EXCEPT !.text = text]

RowLine(kind, energy, net, uncert) ==
    [Line(kind) EXCEPT !.energy = energy, !.net = net, !.uncert = uncert]

RECURSIVE SplitFirst(_, _)
\* s.split(sep)[0]
SplitFirst(s, sep) ==
    IF s = << >> \/ Head(s) = sep THEN << >>
    ELSE <<Head(s)>> \o SplitFirst(Tail(s), sep)

\* s.split(sep)[-1]
SplitLast(s, sep) ==
    LET at == {i \in 1..Len(s) : s[i] = sep}
    IN  IF at = {} THEN s
        ELSE SubSeq(s, (CHOOSE i \in at : \A j \in at : j <= i) + 1, Len(s))

\* value.replace(' ', '_')
ReplaceSpace(value) == [i \in 1..Len(value) |-> IF value[i] = " " THEN "_" ELSE value[i]]

\* value.lower()
Lower(value) ==
    [i \in 1..Len(value) |->
        CASE value[i] = "T1" -> "t1"
          [] value[i] = "T2" -> "t2"
          [] OTHER -> value[i]]

\* Report.__init__; `attrs` are the attributes set later by setattr
Report(filepath) ==
    [filepath |-> filepath, energy |-> << >>, net_counts |-> << >>,
     err_net_counts |-> << >>, detector |-> << >>,
     attrs |-> {}, tar_id |-> << >>, live_time |-> Zero, real_time |-> Zero,
     datetime_meas |-> 0, detector_level |-> << >>]

\* setattr(self, key, value)
SetAttr(report, key, value) ==
    [[report EXCEPT ![key] = value] EXCEPT !.attrs = @ \cup {key}]

\* the metadata patterns of get_report_InterWinner on one line
InterWinnerMetadata(report, line) ==
    CASE line.kind = "live" -> SetAttr(report, "live_time", line.num)
      [] line.kind = "real" -> SetAttr(report, "real_time", line.num)
      [] line.kind = "date" ->
           IF line.valid THEN SetAttr(report, "datetime_meas", line.time) ELSE report
      [] line.kind = "level" ->
           SetAttr(report, "detector_level", ReplaceSpace(line.text))
      [] OTHER -> report

\* pattern_data_1 when the column header with NETTO-NUL is in the report,
\* pattern_data_2 otherwise
InterWinnerRowKind(lines) ==
    IF \E i \in 1..Len(lines) : lines[i].kind = "columns_nul" THEN "row_nul" ELSE "row"

RECURSIVE InterWinnerLinesNoStop(_, _, _, _)
\* fault injection: the list with confirmed isotopes does not end the loop
InterWinnerLinesNoStop(report, lines, i, start_collecting) ==
    IF i > Len(lines) THEN report
    ELSE LET line == lines[i]
             r == InterWinnerMetadata(report, line)
         IN  IF line.kind = "candidates" THEN InterWinnerLinesNoStop(r, lines, i + 1, TRUE)
             ELSE IF start_collecting /\ line.kind = InterWinnerRowKind(lines)
                  THEN InterWinnerLinesNoStop(
                           [r EXCEPT
                               !.energy = Append(@, line.energy),
                               !.net_counts = Append(@, line.net),
                               !.err_net_counts =
                                   Append(@, Div(Mul(line.net, line.uncert),
                                                 Int2Num(100)))],
                           lines, i + 1, start_collecting)
             ELSE InterWinnerLinesNoStop(r, lines, i + 1, start_collecting)

RECURSIVE InterWinnerLinesPercent(_, _, _, _)
\* fault injection: the percentage of the report is stored as it is
InterWinnerLinesPercent(report, lines, i, start_collecting) ==
    IF i > Len(lines) THEN report
    ELSE LET line == lines[i]
             r == InterWinnerMetadata(report, line)
         IN  IF line.kind = "candidates" THEN InterWinnerLinesPercent(r, lines, i + 1, TRUE)
             ELSE IF line.kind = "confirmed" THEN r
             ELSE IF start_collecting /\ line.kind = InterWinnerRowKind(lines)
                  THEN InterWinnerLinesPercent(
                           [r EXCEPT
                               !.energy = Append(@, line.energy),
                               !.net_counts = Append(@, line.net),
                               !.err_net_counts = Append(@, line.uncert)],
                           lines, i + 1, start_collecting)
             ELSE InterWinnerLinesPercent(r, lines, i + 1, start_collecting)

RECURSIVE InterWinnerLines(_, _, _, _)
\* the loop over report.splitlines() from line i on
InterWinnerLines(report, lines, i, start_collecting) ==
    IF i > Len(lines) THEN report
    ELSE LET line == lines[i]
             r == InterWinnerMetadata(report, line)
         IN  IF line.kind = "candidates" THEN InterWinnerLines(r, lines, i + 1, TRUE)
             ELSE IF line.kind = "confirmed" THEN r
             ELSE IF start_collecting /\ line.kind = InterWinnerRowKind(lines)
                  THEN InterWinnerLines(
                           [r EXCEPT
                               !.energy = Append(@, line.energy),
                               !.net_counts = Append(@, line.net),
                               !.err_net_counts =
                                   Append(@, Div(Mul(line.net, line.uncert),
                                                 Int2Num(100)))],
                           lines, i + 1, start_collecting)
             ELSE InterWinnerLines(r, lines, i + 1, start_collecting)

\* fault injection: an empty peak list is an error that ends the parse
get_report_InterWinner_EmptyFails(file) ==
    LET report ==
            [SetAttr(Report(file.filepath), "tar_id",
                     SplitFirst(SplitFirst(SplitLast(file.filepath, "\\"), "."), "_"))
                EXCEPT !.detector = <<"OIPA Lab 35">>]
        parsed == InterWinnerLines(report, file.lines, 1, FALSE)
    IN  [exc |-> IF parsed.energy = << >> THEN "EmptyResultError" ELSE "none",
         report |-> parsed]

\* Report.get_report_InterWinner
get_report_InterWinner(file) ==
    LET report ==
            [SetAttr(Report(file.filepath), "tar_id",
                     SplitFirst(SplitFirst(SplitLast(file.filepath, "\\"), "."), "_"))
                EXCEPT !.detector = <<"OIPA Lab 35">>]
    IN  [exc |-> "none", report |-> InterWinnerLines(report, file.lines, 1, FALSE)]

\* keys_data_patterns of get_report_Genie2K, in order, with the kind of
\* line each pattern matches
Genie2KKeys ==
    << [key |-> "tar_id", kind |-> "sample_id"],
       [key |-> "detector_level", kind |-> "detector_level"],
       [key |-> "detector", kind |-> "detector"],
       [key |-> "datetime_meas", kind |-> "acq_time"],
       [key |-> "live_time", kind |-> "live_time"],
       [key |-> "real_time", kind |-> "real_time"] >>

\* re.findall(pattern, report)[0]: the first line of the kind
FirstMatch(lines, kind) ==
    LET at == {i \in 1..Len(lines) : lines[i].kind = kind}
    IN  lines[CHOOSE i \in at : \A j \in at : i <= j]

RECURSIVE Genie2KMetadata(_, _, _)
\* the loop over the metadata patterns from pattern k on
Genie2KMetadata(report, lines, k) ==
    IF k > Len(Genie2KKeys) THEN [exc |-> "none", report |-> report]
    ELSE LET key == Genie2KKeys[k].key
             kind == Genie2KKeys[k].kind
         IN  IF \A i \in 1..Len(lines) : lines[i].kind # kind
             THEN [exc |-> "ValueError", report |-> report]
             ELSE LET value == FirstMatch(lines, kind)
                  IN  Genie2KMetadata(
                          CASE key = "datetime_meas" ->
                                 IF value.valid
                                 THEN SetAttr(report, key, value.time) ELSE report
                            [] key \in {"live_time", "real_time"} ->
                                 SetAttr(report, key, value.num)
                            [] key = "detector" ->
                                 [report EXCEPT !.detector = value.text]
                            [] key = "tar_id" -> SetAttr(report, key, Lower(value.text))
                            [] OTHER -> SetAttr(report, key, value.text),
                          lines, k + 1)

RECURSIVE Genie2KLines(_, _, _, _)
\* the loop over report.splitlines() from line i on
Genie2KLines(report, lines, i, start_collecting) ==
    IF i > Len(lines) THEN report
    ELSE IF lines[i].kind = "peak_header" THEN Genie2KLines(report, lines, i + 1, TRUE)
    ELSE IF start_collecting /\ lines[i].kind = "peak_row"
         THEN Genie2KLines(
                  [report EXCEPT
                      !.energy = Append(@, lines[i].energy),
                      !.net_counts = Append(@, lines[i].net),
                      !.err_net_counts = Append(@, lines[i].uncert)],
                  lines, i + 1, start_collecting)
    ELSE Genie2KLines(report, lines, i + 1, start_collecting)

\* Report.get_report_Genie2K
get_report_Genie2K(file) ==
    LET meta == Genie2KMetadata(Report(file.filepath), file.lines, 1)
    IN  IF meta.exc # "none" THEN meta
        ELSE [exc |-> "none", report |-> Genie2KLines(meta.report, file.lines, 1, FALSE)]

\* peak energies from exactly 1.0 below the line at 10 to exactly 1.0 above it
PeakEnergies == 8..12

SeqsUpTo(S, n) == UNION {[1..k -> S] : k \in 0..n}

\* the path of the report `run` of the target `tar` in the reports directory
ReportPath(tar, run) == <<"T:", "\\", "reports", "\\", tar, "_", run, ".", "txt">>

\* an InterWinner report: acquisition data, the list by energies with
\* candidate isotopes, the list with confirmed isotopes (10 % uncertainty
\* on every net area)
InterWinnerFile(filepath, date, energy, net) ==
    [filepath |-> filepath,
     lines |-> << Line("text"),
                  NumLine("live", One), NumLine("real", One),
                  DateLine("date", date, TRUE),
                  TextLine("level", <<"Rille", " ", "17">>),
                  Line("candidates") >>
               \o [j \in 1..Len(energy) |-> RowLine("row", energy[j], net[j], Int2Num(10))]
               \o << Line("confirmed"),
                     RowLine("row", 10, Int2Num(9), Int2Num(10)) >>]

\* a report holding the peaks `energy`, in that order; peak j has net area j
\* and a 10 % uncertainty, so the peaks of a report are told apart
PeakReport(energy) ==
    InterWinnerFile(ReportPath("t1", "a"), 1, energy,
                    [j \in 1..Len(energy) |-> Int2Num(j)])

\* reports of several acquisitions: no peak; a peak on the selected line of
\* Zn-65; a peak half a unit above it, acquired at the same time as the
\* first; a report of another target; an acquisition so late that
\* exp(Lambda * t_cool) overflows, with a peak on Na-22 only
FoilReports ==
    { InterWinnerFile(ReportPath("t1", "a"), 1, << >>, << >>),
      InterWinnerFile(ReportPath("t1", "b"), 2, <<10>>, <<Int2Num(4)>>),
      InterWinnerFile(ReportPath("t1", "c"), 1, <<11>>, <<Int2Num(2)>>),
      InterWinnerFile(ReportPath("t2", "a"), 1, <<10>>, <<Int2Num(3)>>),
      InterWinnerFile(ReportPath("t1", "d"), 1500, <<8>>, <<Int2Num(5)>>) }

\* the report files of a directory, in listing order
Directories ==
    {<<PeakReport(e)>> : e \in SeqsUpTo(PeakEnergies, MaxPeaks)}
        \cup SeqsUpTo(FoilReports, MaxMeas)

\* the lines of an InterWinner report of the form of InterWinnerFile, the
\* acquisition data aside
InterWinnerPeakList(rows) ==
    << Line("candidates") >> \o rows
        \o << Line("confirmed"), RowLine("row", 10, Int2Num(9), Int2Num(10)) >>

\* InterWinner reports of differing form, each of the target t1 with a peak
\* half a unit above the selected line of Zn-65: a regular one; one without the live time;
\* one with a date strptime rejects; one with peak rows before the list by
\* energies; one with the NETTO-NUL column (and a row without it); one
\* taken at a level without calibration; one under a "/"-separated path;
\* one under a directory whose name holds "_" and "."; one whose live time
\* is above its real time
InterWinnerForms ==
    LET acq == << NumLine("live", One), NumLine("real", One),
                  DateLine("date", 1, TRUE), TextLine("level", <<"Rille", " ", "17">>) >>
        peak == RowLine("row", 11, Int2Num(2), Int2Num(10))
        list == InterWinnerPeakList(<<peak>>)
    IN  { [filepath |-> ReportPath("t1", "b"), lines |-> acq \o list],
          [filepath |-> ReportPath("t1", "e"), lines |-> Tail(acq) \o list],
          [filepath |-> ReportPath("t1", "f"),
           lines |-> << acq[1], acq[2], DateLine("date", 1, FALSE), acq[4] >> \o list],
          [filepath |-> ReportPath("t1", "g"),
           lines |-> acq \o << RowLine("row", 9, Int2Num(7), Int2Num(10)) >> \o list],
          [filepath |-> ReportPath("t1", "h"),
           lines |-> acq \o << Line("columns_nul") >>
                         \o InterWinnerPeakList(
                                << RowLine("row_nul", 11, Int2Num(2), Int2Num(10)),
                                   RowLine("row", 12, Int2Num(6), Int2Num(10)) >>)],
          [filepath |-> ReportPath("t1", "i"),
           lines |-> << acq[1], acq[2], acq[3], TextLine("level", <<"Rille", " ", "5">>) >>
                         \o list],
          [filepath |-> <<"home", "/", "foil", "_", "reports", "/", "t1", "_", "a", ".", "txt">>,
           lines |-> acq \o list],
          [filepath |-> <<"T:", "\\", "foil", "_", "reports", ".", "v2", "\\",
                          "t1", "_", "a", ".", "txt">>,
           lines |-> acq \o list],
          [filepath |-> ReportPath("t1", "j"),
           lines |-> << NumLine("live", Int2Num(2)), acq[2], acq[3], acq[4] >> \o list] }

\* a Genie2K report: the acquisition data, then the peak table
Genie2KFile(filepath, sample_id, detector, acq, table) ==
    [filepath |-> filepath,
     lines |-> << TextLine("sample_id", <<sample_id>>),
                  TextLine("detector_level", <<"50", " ", "cm">>),
                  TextLine("detector", <<detector>>) >> \o acq \o table]

\* Genie2K reports of differing form: a regular one of the target t1, with
\* a row before the header of the peak table and rows after it; one without
\* the live time; one without a peak table; one of another sample; one with
\* a date strptime rejects; one of a detector whose calibration table is
\* empty; one of a detector the calibrations do not know
Genie2KForms ==
    LET acq == << DateLine("acq_time", 1, TRUE), NumLine("live_time", One),
                  NumLine("real_time", One) >>
        table == << RowLine("peak_row", 9, Int2Num(7), Rat(7, 10)),
                    Line("peak_header"),
                    RowLine("peak_row", 11, Int2Num(2), Rat(1, 5)),
                    Line("text"),
                    RowLine("peak_row", 12, Int2Num(3), Rat(3, 10)) >>
    IN  { Genie2KFile(ReportPath("t1", "a"), "T1", "OIPA Lab 109", acq, table),
          Genie2KFile(ReportPath("t1", "b"), "T1", "OIPA Lab 109",
                      << acq[1], acq[3] >>, table),
          Genie2KFile(ReportPath("t1", "c"), "T1", "OIPA Lab 109", acq, << >>),
          Genie2KFile(ReportPath("t1", "d"), "T2", "OIPA Lab 109", acq, table),
          Genie2KFile(ReportPath("t1", "e"), "T1", "OIPA Lab 109",
                      << DateLine("acq_time", 1, FALSE), acq[2], acq[3] >>, table),
          Genie2KFile(ReportPath("t1", "f"), "T1", "West HPGe - WILA", acq, table),
          Genie2KFile(ReportPath("t1", "g"), "T1", "OIPA Lab 12", acq, table) }

\* what a run is given: the report format asked for, the reference data,
\* the report directory
Runs ==
    [software : {"InterWinner"}, variant : Variants, directory : Directories]
        \cup [software : {"InterWinner"}, variant : {"missing_line"},
               directory : SeqsUpTo(FoilReports, MaxFiles)]
        \cup [software : {"InterWinner"}, variant : {"regular"},
               directory : SeqsUpTo(InterWinnerForms, MaxFiles)]
        \cup [software : {"Genie2K"}, variant : {"regular"},
               directory : SeqsUpTo(Genie2KForms, MaxFiles)]
        \cup [software : {"Genie2K", "Maestro"}, variant : {"regular"},
               directory : SeqsUpTo(InterWinnerForms, 1)]

\* ------------------------------------------------------------------------
\* Typed collections: RadionuclideList, MeasurementList, TargetList
\* ------------------------------------------------------------------------
\* An item is the class it is an instance of.  An argument is an iterable:
\* the class of the container (a plain list, a tuple, or one of the three
\* collections) and its items.
ItemTypes == {"Radionuclide", "Measurement", "Target"}

Collections == {"RadionuclideList", "MeasurementList", "TargetList"}

\* the class whose instances the collection is meant to hold
ElementType(cls) ==
    IF cls = "RadionuclideList" THEN "Radionuclide"
    ELSE IF cls = "MeasurementList" THEN "Measurement"
    ELSE "Target"

\* isinstance(list_, list)
IsList(list_) == list_.cls \in {"list"} \cup Collections

AllOf(items, type) == \A i \in 1..Len(items) : items[i] = type

\* RadionuclideList.__init__
RadionuclideList_init(list_) ==
    IF IsList(list_) /\ AllOf(list_.items, "Radionuclide")
    THEN [exc |-> "none", items |-> list_.items]
    ELSE [exc |-> "ValueError", items |-> << >>]

\* RadionuclideList.append
RadionuclideList_append(self, item) ==
    IF item = "Radionuclide" THEN [exc |-> "none", items |-> Append(self, item)]
    ELSE [exc |-> "ValueError", items |-> self]

\* list.insert(index, item) for an index from 0: the item goes before the
\* item at index, at the end if there is none
list_insert(self, index, item) ==
    LET at == IF index > Len(self) THEN Len(self) ELSE index
    IN  SubSeq(self, 1, at) \o <<item>> \o SubSeq(self, at + 1, Len(self))

\* RadionuclideList.insert
RadionuclideList_insert(self, index, item) ==
    IF item = "Radionuclide"
    THEN [exc |-> "none", items |-> list_insert(self, index, item)]
    ELSE [exc |-> "TypeError", items |-> self]

\* RadionuclideList.extend
RadionuclideList_extend(self, other) ==
    IF other.cls # "RadionuclideList" THEN [exc |-> "TypeError", items |-> self]
    ELSE IF ~AllOf(other.items, "Radionuclide") THEN [exc |-> "TypeError", items |-> self]
    ELSE [exc |-> "none", items |-> self \o other.items]

\* MeasurementList.__init__
MeasurementList_init(list_) ==
    IF IsList(list_) /\ AllOf(list_.items, "Measurement")
    THEN [exc |-> "none", items |-> list_.items]
    ELSE [exc |-> "ValueError", items |-> << >>]

\* MeasurementList.append
MeasurementList_append(self, item) ==
    IF item = "Measurement" THEN [exc |-> "none", items |-> Append(self, item)]
    ELSE [exc |-> "ValueError", items |-> self]

\* MeasurementList defines neither insert nor extend: those of list act
MeasurementList_insert(self, index, item) ==
    [exc |-> "none", items |-> list_insert(self, index, item)]

MeasurementList_extend(self, other) ==
    [exc |-> "none", items |-> self \o other.items]

\* TargetList.__init__
TargetList_init(list_) ==
    IF IsList(list_) /\ AllOf(list_.items, "Target")
    THEN [exc |-> "none", items |-> list_.items]
    ELSE [exc |-> "ValueError", items |-> << >>]

\* TargetList.append
TargetList_append(self, item) ==
    IF item = "Target" THEN [exc |-> "none", items |-> Append(self, item)]
    ELSE [exc |-> "ValueError", items |-> self]

\* TargetList defines neither insert nor extend: those of list act
TargetList_insert(self, index, item) ==
    [exc |-> "none", items |-> list_insert(self, index, item)]

TargetList_extend(self, other) ==
    [exc |-> "none", items |-> self \o other.items]

\* ------------------------------------------------------------------------
\* Cross-section predictor: cross_section.py, activity_evaluation.py
\* ------------------------------------------------------------------------
\* A nuclide name is a sequence of characters, of which the pattern tells
\* apart letters, the hyphen, digits and anything else.
Letters == {"Z", "n", "N", "a", "V"}

Digits == {"2", "4", "5", "6", "8"}

\* the characters of the names a call is tried with
NameChars == {"Z", "6", "-", "."}

\* fault injection: re.match, which accepts a name that starts as the
\* pattern asks
PrefixMatch(nuc) ==
    \E n \in 3..Len(nuc) : \E k \in 1..(n - 2) :
        /\ \A i \in 1..k : nuc[i] \in Letters
        /\ nuc[k + 1] = "-"
        /\ \A i \in (k + 2)..n : nuc[i] \in Digits

\* re.fullmatch(pattern, nuc) with pattern = r'[a-zA-Z]+\-\d+'
FullMatch(nuc) ==
    \E k \in 1..(Len(nuc) - 2) :
        /\ \A i \in 1..k : nuc[i] \in Letters
        /\ nuc[k + 1] = "-"
        /\ \A i \in (k + 2)..Len(nuc) : nuc[i] \in Digits

\* a file of DIR_XS_DATA: its name and what pd.read_csv makes of it: a
\* table (energy, data, uncert), no columns to parse (EmptyDataError), a
\* tokenizing error (ParserError), any other failure to read it
XsFile(name, content) == [name |-> name, content |-> content]

XsContents == {"table", "empty", "unparsable", "unreadable"}

\* the listings of DIR_XS_DATA: no file; the table of Z-6 in each content;
\* two files of the name Z-6, the later an empty one, and the table of ZZ-6
XsListings ==
    { << >> }
        \cup { << XsFile(<<"Z", "-", "6", ".", "csv">>, c) >> : c \in XsContents }
        \cup { << XsFile(<<"Z", "Z", "-", "6", ".", "csv">>, "table"),
                  XsFile(<<"Z", "-", "6", ".", "csv">>, "table"),
                  XsFile(<<"Z", "-", "6", ".", "txt">>, "empty") >> }

\* filepaths_xs = {f.split('.')[0]: join(dir, f) for f in listdir(dir)}: the
\* position in the listing of the file the key nuc ends up with (a later
\* file of the same key replaces an earlier one), 0 if nuc is no key
FilepathsXs(listing, nuc) ==
    LET keyed == {i \in 1..Len(listing) : SplitFirst(listing[i].name, ".") = nuc}
    IN  IF keyed = {} THEN 0 ELSE CHOOSE i \in keyed : \A j \in keyed : j <= i

\* the tabulated cross section of every table of the model: energy (MeV),
\* data (mb)
XsTable == << [energy |-> 10, data |-> 100], [energy |-> 20, data |-> 300] >>

\* interp1d(cross_section.energy, cross_section.data, kind='linear') called
\* at `energy`: outside the tabulated range it raises ValueError
f_xs(table, energy) ==
    IF energy < table[1].energy \/ energy > table[Len(table)].energy
    THEN [exc |-> "ValueError", xs |-> 0]
    ELSE LET k == CHOOSE k \in 1..(Len(table) - 1) :
                      table[k].energy <= energy /\ energy <= table[k + 1].energy
         IN  [exc |-> "none",
              xs |-> table[k].data
                       + ((table[k + 1].data - table[k].data) * (energy - table[k].energy))
                           \div (table[k + 1].energy - table[k].energy)]

\* the proton energies the predictor is asked at: below the table, in it
XsEnergies == {5, 15}

\* load_monitor_cross_section as one call
load_monitor_cross_section(nuc, listing) ==
    IF ~FullMatch(nuc) THEN [exc |-> "ValueError", table |-> << >>]
    ELSE IF FilepathsXs(listing, nuc) = 0 THEN [exc |-> "FileNotFoundError", table |-> << >>]
    ELSE LET content == listing[FilepathsXs(listing, nuc)].content
         IN  IF content = "table" THEN [exc |-> "none", table |-> XsTable]
             ELSE IF content \in {"empty", "unparsable"}
                  THEN [exc |-> "ValueError", table |-> << >>]
             ELSE [exc |-> "IOError", table |-> << >>]

\* evaluate_eob_activity as one call: the activity is f_xs(energy) times a
\* factor of the beam, the foil and the decay constant, and is kept in units
\* of that factor
evaluate_eob_activity(nuc, en, listing) ==
    LET cross_section == load_monitor_cross_section(nuc, listing)
        res == f_xs(cross_section.table, en)
    IN  IF cross_section.exc # "none"
        THEN [exc |-> cross_section.exc, returned |-> FALSE, act_eob |-> 0]
        ELSE IF res.exc # "none" THEN [exc |-> res.exc, returned |-> FALSE, act_eob |-> 0]
        ELSE [exc |-> "none", returned |-> TRUE, act_eob |-> res.xs]

\* the characters of the name of a nuclide of the reference data
Chars(name) ==
    IF name = "Zn-65" THEN <<"Z", "n", "-", "6", "5">>
    ELSE IF name = "Na-22" THEN <<"N", "a", "-", "2", "2">>
    ELSE <<"V", "-", "4", "8">>

\* DIR_XS_DATA of the analysis: a table for each nuclide of the reference data
DirXsData ==
    << XsFile(Chars("Zn-65") \o <<".", "csv">>, "table"),
       XsFile(Chars("Na-22") \o <<".", "csv">>, "table"),
       XsFile(Chars("V-48") \o <<".", "csv">>, "table") >>

\* Target.energy, the proton energy behind the degrader (MeV)
BeamEnergy == 15

\* the call of evaluate_eob_activity for a nuclide of the target, with what
\* TargetList.evaluate_eob_activites passes
EobEvaluation(nuc) == evaluate_eob_activity(Chars(nuc.name), BeamEnergy, DirXsData)

\* ------------------------------------------------------------------------
\* State
\* ------------------------------------------------------------------------
VARIABLES
    util_call,      \* the call of a function of core/utils made last
    util_result,    \* what it raised or returned
    targets,        \* the items of the TargetList of the analysis script
    tl_pc,          \* the method of the TargetList the script calls next
    tl_exc,         \* the exception that ended the script at tl_pc
    collections,    \* the items of a RadionuclideList, a MeasurementList, a TargetList
    raised,         \* the exception of the last operation on a collection
    nuclide,        \* the name evaluate_eob_activity is called with
    energy,         \* the proton energy it is called with
    xs_listing,     \* listdir(config['DIR_XS_DATA'])
    xs_pc,          \* position of the call of evaluate_eob_activity
    xs_exc,         \* the exception that ended the call at xs_pc
    looked_up,      \* whether the call has listed DIR_XS_DATA
    act_eob_eval,   \* what the call has returned
    software,       \* the report format load_measurements is asked to read
    variant,        \* which reference data the run reads
    directory,      \* the report files of dir_reports
    target_id,      \* Target.target_id
    radionuclides,  \* Target.radionuclides
    measurements,   \* Target.measurements, each with its source report
    current_report, \* the Report load_measurements has parsed last
    pc,             \* position of the analysis script
    exc             \* the exception that ended the run at pc, "none" otherwise

\* what a run is given
inputs == <<software, variant, directory, target_id>>

\* the state of the analysis of a target
analysisVars == <<inputs, radionuclides, measurements, current_report, pc, exc>>

\* the state of the collections
listVars == <<collections, raised>>

\* the state of a call of the cross-section predictor
xsVars == <<nuclide, energy, xs_listing, xs_pc, xs_exc, looked_up, act_eob_eval>>

\* the state of a call of core/utils and of the list of targets
sideVars == <<util_call, util_result, targets, tl_pc, tl_exc>>

vars == <<analysisVars, listVars, xsVars, sideVars>>

\* Measurement.__init__; `report` is kept to state properties of the matcher
Measurement(rep, tar_mat, v) ==
    [meas_date |-> rep.datetime_meas, level |-> rep.detector_level,
     live_time |-> rep.live_time, real_time |-> rep.real_time,
     detector |-> rep.detector, target_id |-> rep.tar_id,
     radionuclides |-> LoadRadionuclides(v, tar_mat),
     t_cool |-> NaN, t_cool_set |-> FALSE,
     report |-> rep]

\* the attributes of the report the call of Measurement(...) reads
MeasurementArguments == {"datetime_meas", "detector_level", "live_time", "real_time", "tar_id"}

\* ------------------------------------------------------------------------
\* Peak matcher: Measurement.get_net_counts
\* ------------------------------------------------------------------------
\* the matcher's tolerance 1.0, in half units
Tol == 2

\* fault injection: the tolerance taken inclusively
IsCandidateInclusive(Ey_m, Ey_s) == (Ey_m <= Ey_s + Tol) /\ (Ey_m >= Ey_s - Tol)

\* a report peak is a candidate for the line Ey_s
IsCandidate(Ey_m, Ey_s) == (Ey_m < Ey_s + Tol) /\ (Ey_m > Ey_s - Tol)

Candidates(report, Ey_s) ==
    {j \in 1..Len(report.energy) : IsCandidate(report.energy[j], Ey_s)}

Deviation(report, j, Ey_s) == Abs(report.energy[j] - Ey_s)

\* fault injection: the first candidate of the report, whatever its deviation
ClosestIsFirst(report, Ey_s) ==
    LET c == Candidates(report, Ey_s)
    IN  {j \in c : \A i \in c : j <= i}

\* the peaks selected by  deviations == deviations.min()
Closest(report, Ey_s) ==
    LET c == Candidates(report, Ey_s)
    IN  {j \in c : \A i \in c : Deviation(report, j, Ey_s) <= Deviation(report, i, Ey_s)}

\* fault injection: nothing is appended for a line without a candidate
MatchLineNoSentinel(report, Ey_s) ==
    LET c == Candidates(report, Ey_s)
        best == Closest(report, Ey_s)
    IN  IF c = {} THEN [exc |-> "none", net_counts |-> << >>, err_net_counts |-> << >>]
        ELSE IF Cardinality(best) = 1
             THEN LET j == CHOOSE j \in best : TRUE
                  IN  [exc |-> "none", net_counts |-> <<report.net_counts[j]>>,
                       err_net_counts |-> <<report.err_net_counts[j]>>]
        ELSE [exc |-> "TypeError", net_counts |-> << >>, err_net_counts |-> << >>]

\* fault injection: among equidistant peaks the last one of the report is taken
MatchLineLastWins(report, Ey_s) ==
    LET c == Candidates(report, Ey_s)
        best == Closest(report, Ey_s)
    IN  IF c = {} THEN [exc |-> "none", net_counts |-> <<Zero>>, err_net_counts |-> <<Zero>>]
        ELSE LET j == CHOOSE j \in best : \A i \in best : i <= j
             IN  [exc |-> "none", net_counts |-> <<report.net_counts[j]>>,
                  err_net_counts |-> <<report.err_net_counts[j]>>]

\* fault injection: every candidate is appended as it is met
MatchLineAppendsAll(report, Ey_s) ==
    LET c == Candidates(report, Ey_s)
        cs == SelectSeq([j \in 1..Len(report.energy) |-> j], LAMBDA j : j \in c)
    IN  IF c = {} THEN [exc |-> "none", net_counts |-> <<Zero>>, err_net_counts |-> <<Zero>>]
        ELSE [exc |-> "none",
              net_counts |-> [k \in 1..Len(cs) |-> report.net_counts[cs[k]]],
              err_net_counts |-> [k \in 1..Len(cs) |-> report.err_net_counts[cs[k]]]]

\* what one gamma line appends to net_counts and err_net_counts; float() of
\* an array of two or more elements raises TypeError
MatchLine(report, Ey_s) ==
    LET c == Candidates(report, Ey_s)
        best == Closest(report, Ey_s)
        one(j) == [exc |-> "none", net_counts |-> <<report.net_counts[j]>>,
                   err_net_counts |-> <<report.err_net_counts[j]>>]
    IN  IF c = {}
        THEN [exc |-> "none", net_counts |-> <<Zero>>, err_net_counts |-> <<Zero>>]
        ELSE IF Cardinality(c) = 1 THEN one(CHOOSE j \in c : TRUE)
        ELSE IF Cardinality(best) = 1 THEN one(CHOOSE j \in best : TRUE)
        ELSE [exc |-> "TypeError", net_counts |-> << >>, err_net_counts |-> << >>]

RECURSIVE NetCountsFrom(_, _, _, _)
\* the two loops of get_net_counts from nuclide r, gamma line i on
NetCountsFrom(nucs, report, r, i) ==
    IF r > Len(nucs) THEN [exc |-> "none", nucs |-> nucs]
    ELSE LET t == IndexOf(nucs, nucs[r].name)
         IN  IF i > Len(nucs[r].g_energies)
             THEN NetCountsFrom([nucs EXCEPT ![t].nc_array = TRUE], report, r + 1, 1)
             ELSE IF nucs[t].nc_array THEN [exc |-> "AttributeError", nucs |-> nucs]
             ELSE LET m == MatchLine(report, nucs[r].g_energies[i])
                  IN  IF m.exc # "none" THEN [exc |-> m.exc, nucs |-> nucs]
                      ELSE NetCountsFrom(
                               [nucs EXCEPT
                                   ![t].net_counts = @ \o m.net_counts,
                                   ![t].err_net_counts = @ \o m.err_net_counts],
                               report, r, i + 1)

get_net_counts(m, report) ==
    LET res == NetCountsFrom(m.radionuclides, report, 1, 1)
    IN  [exc |-> res.exc, m |-> [m EXCEPT !.radionuclides = res.nucs]]

\* ------------------------------------------------------------------------
\* Target.load_measurements
\* ------------------------------------------------------------------------
TargetMaterial == "Cu"

\* fault injection: every report is taken for a report of the target
IsOfTargetAlways(tid, rep) == TRUE

\* the test  self.target_id == report.tar_id
IsOfTarget(tid, rep) == tid = rep.tar_id

\* the report of one file, read as `software` says
ReadReport(file) ==
    IF software = "InterWinner" THEN get_report_InterWinner(file)
    ELSE IF software = "Genie2K" THEN get_report_Genie2K(file)
    ELSE [exc |-> "ValueError", report |-> Report(file.filepath)]

\* one iteration of the loop over the report files.  Reading an attribute
\* the parser has not set raises AttributeError.
LoadReport ==
    /\ exc = "none"
    /\ pc.at = "load"
    /\ pc.i <= Len(directory)
    /\ LET read == ReadReport(directory[pc.i])
           rep == read.report
       IN  /\ current_report' = rep
           /\ IF read.exc # "none"
              THEN /\ exc' = read.exc
                   /\ UNCHANGED <<measurements, pc>>
              ELSE IF "tar_id" \notin rep.attrs
              THEN /\ exc' = "AttributeError"
                   /\ UNCHANGED <<measurements, pc>>
              ELSE IF ~IsOfTarget(target_id, rep)
              THEN /\ pc' = [pc EXCEPT !.i = @ + 1]
                   /\ UNCHANGED <<measurements, exc>>
              ELSE IF ~(MeasurementArguments \subseteq rep.attrs)
              THEN /\ exc' = "AttributeError"
                   /\ UNCHANGED <<measurements, pc>>
              ELSE LET res == get_net_counts(Measurement(rep, TargetMaterial, variant), rep)
                   IN  /\ measurements' = Append(measurements, res.m)
                       /\ exc' = res.exc
                       /\ pc' = IF res.exc = "none" THEN [pc EXCEPT !.i = @ + 1] ELSE pc
    /\ UNCHANGED <<sideVars, listVars, xsVars, inputs, radionuclides>>

RECURSIVE InsertSortedBeforeEqual(_, _)
\* fault injection: m goes before the measurements of its own date
InsertSortedBeforeEqual(sorted, m) ==
    IF sorted = << >> THEN <<m>>
    ELSE IF Head(sorted).meas_date < m.meas_date
         THEN <<Head(sorted)>> \o InsertSortedBeforeEqual(Tail(sorted), m)
         ELSE <<m>> \o sorted

RECURSIVE InsertSorted(_, _)
\* m goes after every measurement that is not later than it (list.sort is stable)
InsertSorted(sorted, m) ==
    IF sorted = << >> THEN <<m>>
    ELSE IF Head(sorted).meas_date <= m.meas_date
         THEN <<Head(sorted)>> \o InsertSorted(Tail(sorted), m)
         ELSE <<m>> \o sorted

RECURSIVE SortByDate(_)
SortByDate(ms) ==
    IF ms = << >> THEN << >>
    ELSE InsertSorted(SortByDate(SubSeq(ms, 1, Len(ms) - 1)), ms[Len(ms)])

\* the end of load_measurements: measurements.sort(key=get_datetime_meas)
SortMeasurements ==
    /\ exc = "none"
    /\ pc.at = "load"
    /\ pc.i > Len(directory)
    /\ measurements' = SortByDate(measurements)
    /\ pc' = [at |-> "cool", i |-> 1, r |-> 1]
    /\ UNCHANGED <<sideVars, listVars, xsVars, inputs, current_report, radionuclides, exc>>

\* ------------------------------------------------------------------------
\* Positions of the analysis script (analysis/gamma_spec_analysis.py)
\* ------------------------------------------------------------------------
\* TargetList.calculate_activities visits the nuclides of the measurements
\* in order; the first (measurement, nuclide) at or after (i, r), or the
\* mean when the loops are over
\* fault injection: the loops are over after the first nuclide
ActivityPositionFirstOnly(ms, i, r) ==
    IF i > Len(ms) \/ r > 1 THEN [at |-> "mean", i |-> 1, r |-> 1]
    ELSE [at |-> "act", i |-> i, r |-> r]

RECURSIVE ActivityPosition(_, _, _)
ActivityPosition(ms, i, r) ==
    IF i > Len(ms) THEN [at |-> "mean", i |-> 1, r |-> 1]
    ELSE IF r > Len(ms[i].radionuclides) THEN ActivityPosition(ms, i + 1, 1)
    ELSE [at |-> "act", i |-> i, r |-> r]

\* ------------------------------------------------------------------------
\* Measurement.calculate_cooling_time
\* ------------------------------------------------------------------------
\* core/utils.time_difference on two timestamps in seconds
time_difference(date_hour_in, date_hour_end) == Int2Num(date_hour_end - date_hour_in)

\* the irradiation ends at the origin of the clock
IrrEnd == 0

calculate_cooling_time(m, datetime_irr_end) ==
    [m EXCEPT !.t_cool = time_difference(datetime_irr_end, m.meas_date),
              !.t_cool_set = TRUE]

\* one iteration of the loop of TargetList.get_acquisition_data over the
\* measurements of the target
CalculateCoolingTime ==
    /\ exc = "none"
    /\ pc.at = "cool"
    /\ IF pc.i <= Len(measurements)
       THEN /\ measurements' =
                  [measurements EXCEPT ![pc.i] = calculate_cooling_time(@, IrrEnd)]
            /\ pc' = [pc EXCEPT !.i = @ + 1]
       ELSE /\ pc' = ActivityPosition(measurements, 1, 1)
            /\ UNCHANGED measurements
    /\ UNCHANGED <<sideVars, listVars, xsVars, inputs, current_report, radionuclides, exc>>

\* ------------------------------------------------------------------------
\* Radionuclide.calculate_activity
\* ------------------------------------------------------------------------
Percent(x) == Div(x, Int2Num(100))

\* activity of gamma line i
LineActivity(C_dt, C_meas, net_counts, eff, intensity) ==
    Div(Mul(Mul(C_dt, C_meas), net_counts), Percent(Mul(eff, intensity)))

\* squared relative errors of net counts, efficiency and intensity, summed
LineErrorContrib(net_counts, err_net_counts, eff, err_eff, intensity, err_intensity) ==
    Add(Add(Sq(Div(err_net_counts, net_counts)), Sq(Div(err_eff, eff))),
        Sq(Div(Percent(err_intensity), Percent(intensity))))

calculate_activity(v, nuc, level, detector, real_time, live_time) ==
    IF IsZero(live_time) \/ IsZero(real_time)
    THEN [exc |-> "ZeroDivisionError", nuc |-> nuc]
    ELSE IF \E i \in 1..Len(nuc.g_energies) :
                efficiency_fun(v, nuc.g_energies[i], level, detector).exc # "none"
    THEN [exc |-> "KeyError", nuc |-> nuc]
    ELSE IF nuc.g_energies = << >> \/ Len(nuc.net_counts) # Len(nuc.g_energies)
    THEN [exc |-> "ValueError", nuc |-> nuc]
    ELSE
    LET C_dt == Div(real_time, live_time)
        err_C_dt == Mul(C_dt, Sqrt(Add(Sq(Div(Zero, live_time)), Sq(Div(Zero, real_time)))))
        decayed == Exp(Neg(Mul(nuc.Lambda, real_time)))
        C_meas == Div(nuc.Lambda, Sub(One, decayed))
        temp == Sub(One, Mul(decayed, Add(One, Mul(nuc.Lambda, real_time))))
        err_C_meas == Mul(Div(temp, Sq(Sub(One, decayed))), nuc.err_Lambda)
        scalar == Add(Sq(Div(err_C_dt, C_dt)), Sq(Div(err_C_meas, C_meas)))
        eff(i) == efficiency_fun(v, nuc.g_energies[i], level, detector)
        act == [i \in 1..Len(nuc.g_energies) |->
                   LineActivity(C_dt, C_meas, nuc.net_counts[i], eff(i).eff,
                                nuc.intensities[i])]
        error_contrib(i) ==
            Add(LineErrorContrib(nuc.net_counts[i], nuc.err_net_counts[i],
                                 eff(i).eff, eff(i).err_eff,
                                 nuc.intensities[i], nuc.err_intensities[i]),
                scalar)
    IN  [exc |-> "none",
         nuc |-> [nuc EXCEPT
                    !.act = act,
                    !.err_act = [i \in 1..Len(nuc.g_energies) |->
                                    NanToNum(Mul(Sqrt(error_contrib(i)), act[i]))]]]

\* TargetList.calculate_activities: the activity of one nuclide of one
\* measurement
CalculateActivity ==
    /\ exc = "none"
    /\ pc.at = "act"
    /\ LET m == measurements[pc.i]
           t == IndexOf(m.radionuclides, m.radionuclides[pc.r].name)
           res == calculate_activity(variant, m.radionuclides[t], m.level, m.detector,
                                     m.real_time, m.live_time)
       IN  /\ measurements' = [measurements EXCEPT ![pc.i].radionuclides[t] = res.nuc]
           /\ exc' = res.exc
           /\ pc' = IF res.exc = "none" THEN [pc EXCEPT !.at = "eob"] ELSE pc
    /\ UNCHANGED <<sideVars, listVars, xsVars, inputs, current_report, radionuclides>>

\* ------------------------------------------------------------------------
\* Radionuclide.calculate_eob_act
\* ------------------------------------------------------------------------
\* the error of one line where the mask  act != 0  holds
LineErrActEob(act, err_act, act_eob, C_cool, err_C_cool) ==
    Mul(Sqrt(Add(Sq(Div(err_act, act)), Sq(Div(err_C_cool, C_cool)))), act_eob)

\* fault injection: the error is computed for every line, without the mask
calculate_eob_act_unmasked(nuc, t_cool) ==
    LET C_cool == Exp(Mul(nuc.Lambda, t_cool))
        err_C_cool == Mul(Mul(t_cool, C_cool), nuc.err_Lambda)
        act_eob == [i \in 1..Len(nuc.act) |-> Mul(nuc.act[i], C_cool)]
    IN  [nuc EXCEPT
            !.act_eob = act_eob,
            !.err_act_eob = [i \in 1..Len(nuc.act) |->
                                LineErrActEob(nuc.act[i], nuc.err_act[i],
                                              act_eob[i], C_cool, err_C_cool)]]

calculate_eob_act(nuc, t_cool) ==
    LET C_cool == Exp(Mul(nuc.Lambda, t_cool))
        err_C_cool == Mul(Mul(t_cool, C_cool), nuc.err_Lambda)
        act_eob == [i \in 1..Len(nuc.act) |-> Mul(nuc.act[i], C_cool)]
        non_zero_mask == [i \in 1..Len(nuc.act) |-> ~IsZero(nuc.act[i])]
    IN  [nuc EXCEPT
            !.act_eob = act_eob,
            !.err_act_eob = [i \in 1..Len(nuc.act) |->
                                IF non_zero_mask[i]
                                THEN LineErrActEob(nuc.act[i], nuc.err_act[i],
                                                   act_eob[i], C_cool, err_C_cool)
                                ELSE Zero]]

\* TargetList.calculate_activities: the EoB activity of that nuclide
CalculateEobAct ==
    /\ exc = "none"
    /\ pc.at = "eob"
    /\ LET m == measurements[pc.i]
           t == IndexOf(m.radionuclides, m.radionuclides[pc.r].name)
       IN  IF ~m.t_cool_set
           THEN /\ exc' = "AttributeError"
                /\ UNCHANGED <<measurements, pc>>
           ELSE /\ measurements' =
                      [measurements EXCEPT
                          ![pc.i].radionuclides[t] = calculate_eob_act(@, m.t_cool)]
                /\ pc' = ActivityPosition(measurements, pc.i, pc.r + 1)
                /\ UNCHANGED exc
    /\ UNCHANGED <<sideVars, listVars, xsVars, inputs, current_report, radionuclides>>

\* ------------------------------------------------------------------------
\* Target.calculate_mean_act_eob
\* ------------------------------------------------------------------------
\* r.act_eob[r.g_energies == r.g_line]: the indices the boolean mask selects
SelectedLines(r) == {i \in 1..Len(r.g_energies) : r.g_energies[i] = r.g_line}

RECURSIVE CollectFromReplacingArrays(_, _, _, _)
\* fault injection: what a former call left as an array is replaced by the
\* value of the measurement
CollectFromReplacingArrays(nucs, ms, i, r) ==
    IF i > Len(ms) THEN [exc |-> "none", nucs |-> nucs]
    ELSE IF r > Len(ms[i].radionuclides) THEN CollectFromReplacingArrays(nucs, ms, i + 1, 1)
    ELSE LET mr == ms[i].radionuclides[r]
             t == IndexOf(nucs, mr.name)
             sel == SelectedLines(mr)
         IN  IF t = 0 THEN [exc |-> "KeyError", nucs |-> nucs]
             ELSE IF Len(mr.act_eob) # Len(mr.g_energies)
                  THEN [exc |-> "IndexError", nucs |-> nucs]
             ELSE IF Cardinality(sel) # 1 THEN [exc |-> "TypeError", nucs |-> nucs]
             ELSE LET l == CHOOSE l \in sel : TRUE
                  IN  CollectFromReplacingArrays(
                          [nucs EXCEPT
                              ![t].act_eob = IF nucs[t].eob_array THEN << mr.act_eob[l] >>
                                             ELSE Append(@, mr.act_eob[l]),
                              ![t].err_act_eob = IF nucs[t].eob_array
                                                 THEN << mr.err_act_eob[l] >>
                                                 ELSE Append(@, mr.err_act_eob[l])],
                          ms, i, r + 1)

RECURSIVE CollectFrom(_, _, _, _)
\* the first loop, from nuclide r of measurement i on: the EoB activity and
\* its error at the selected line are appended to the target's nuclide of
\* the same name.  float() of a selection that is not one element raises
\* TypeError; appending to what a former call left as an array,
\* AttributeError.
CollectFrom(nucs, ms, i, r) ==
    IF i > Len(ms) THEN [exc |-> "none", nucs |-> nucs]
    ELSE IF r > Len(ms[i].radionuclides) THEN CollectFrom(nucs, ms, i + 1, 1)
    ELSE LET mr == ms[i].radionuclides[r]
             t == IndexOf(nucs, mr.name)
             sel == SelectedLines(mr)
         IN  IF t = 0 THEN [exc |-> "KeyError", nucs |-> nucs]
             ELSE IF nucs[t].eob_array THEN [exc |-> "AttributeError", nucs |-> nucs]
             ELSE IF Len(mr.act_eob) # Len(mr.g_energies)
                  THEN [exc |-> "IndexError", nucs |-> nucs]
             ELSE IF Cardinality(sel) # 1 THEN [exc |-> "TypeError", nucs |-> nucs]
             ELSE LET l == CHOOSE l \in sel : TRUE
                  IN  CollectFrom(
                          [nucs EXCEPT
                              ![t].act_eob = Append(@, mr.act_eob[l]),
                              ![t].err_act_eob = Append(@, mr.err_act_eob[l])],
                          ms, i, r + 1)

RECURSIVE SumSeq(_)
SumSeq(xs) == IF xs = << >> THEN Zero ELSE Add(SumSeq(SubSeq(xs, 1, Len(xs) - 1)), xs[Len(xs)])

\* weights = 1 / r.err_act_eob**2
Weights(err_act_eob) == [j \in 1..Len(err_act_eob) |-> Div(One, Sq(err_act_eob[j]))]

\* np.average(a, weights=w) = sum(a*w) / sum(w)   (for sum(w) # 0)
Average(a, w) == Div(SumSeq([j \in 1..Len(a) |-> Mul(a[j], w[j])]), SumSeq(w))

\* the mean of one nuclide from what the first loop collected for it
MeanOf(r) ==
    IF Len(r.act_eob) = 0 THEN [exc |-> "none", r |-> r]
    ELSE IF Len(r.act_eob) = 1
    THEN [exc |-> "none",
          r |-> [r EXCEPT !.mean_act_eob = r.act_eob[1],
                          !.err_mean_act_eob = r.err_act_eob[1]]]
    ELSE LET weights == Weights(r.err_act_eob)
         IN  IF IsZero(SumSeq(weights))
             THEN [exc |-> "ZeroDivisionError", r |-> r]
             ELSE [exc |-> "none",
                   r |-> [r EXCEPT
                            !.mean_act_eob = Average(r.act_eob, weights),
                            !.err_mean_act_eob = Sqrt(Div(One, SumSeq(weights)))]]

RECURSIVE MeansFrom(_, _)
\* the third loop, from nuclide r of the target on
MeansFrom(nucs, r) ==
    IF r > Len(nucs) THEN [exc |-> "none", nucs |-> nucs]
    ELSE LET t == IndexOf(nucs, nucs[r].name)
             res == MeanOf(nucs[r])
         IN  IF res.exc # "none" THEN [exc |-> res.exc, nucs |-> nucs]
             ELSE MeansFrom([nucs EXCEPT ![t].mean_act_eob = res.r.mean_act_eob,
                                         ![t].err_mean_act_eob = res.r.err_mean_act_eob],
                            r + 1)

calculate_mean_act_eob(nucs, ms) ==
    LET collected == CollectFrom(nucs, ms, 1, 1)
        arrays == [r \in 1..Len(nucs) |->
                      [collected.nucs[r] EXCEPT !.eob_array = TRUE]]
    IN  IF collected.exc # "none" THEN collected ELSE MeansFrom(arrays, 1)

\* TargetList.calculate_mean_activities, for the target
CalculateMeanActEob ==
    /\ exc = "none"
    /\ pc.at = "mean"
    /\ LET res == calculate_mean_act_eob(radionuclides, measurements)
       IN  /\ radionuclides' = res.nucs
           /\ exc' = res.exc
           /\ pc' = IF res.exc = "none" THEN [at |-> "done", i |-> 1, r |-> 1] ELSE pc
    /\ UNCHANGED <<sideVars, listVars, xsVars, inputs, current_report, measurements>>

\* no collection built besides the target's own
NoCollections ==
    /\ collections = [cls \in Collections |-> << >>]
    /\ raised = "none"

\* no call of core/utils, and no list of targets
NoCalls ==
    /\ util_call = [fn |-> "none", copy |-> "none", stamps |-> << >>,
                    hf |-> Zero, err_hf |-> Zero, uom |-> "none"]
    /\ util_result = [exc |-> "none", returned |-> FALSE, value |-> << >>]
    /\ targets = << >>
    /\ tl_pc = "construct"
    /\ tl_exc = "none"

\* no call of the cross-section predictor
NoPrediction ==
    /\ nuclide = << >>
    /\ energy = 0
    /\ xs_listing = << >>
    /\ xs_pc = "idle"
    /\ xs_exc = "none"
    /\ looked_up = FALSE
    /\ act_eob_eval = [returned |-> FALSE, act_eob |-> 0]

\* no analysis of a target
NoAnalysis ==
    /\ software = "InterWinner"
    /\ variant = "regular"
    /\ directory = << >>
    /\ target_id = <<"t1">>
    /\ current_report = Report(<< >>)
    /\ radionuclides = << >>
    /\ measurements = << >>
    /\ pc = [at |-> "done", i |-> 1, r |-> 1]
    /\ exc = "none"

\* a further call of Target.calculate_mean_act_eob on the target, after
\* the first call has returned or has raised
RepeatMeanActEob ==
    /\ \/ pc.at = "done" /\ exc = "none"
       \/ pc.at = "mean" /\ exc # "none"
    /\ LET res == calculate_mean_act_eob(radionuclides, measurements)
       IN  /\ radionuclides' = res.nucs
           /\ exc' = res.exc
    /\ pc' = [at |-> "again", i |-> 1, r |-> 1]
    /\ UNCHANGED <<sideVars, listVars, xsVars, inputs, current_report, measurements>>

RECURSIVE EvaluateFrom(_, _)
\* the loop of TargetList.evaluate_eob_activites over the nuclides of the
\* target, from nuclide r on
EvaluateFrom(nucs, r) ==
    IF r > Len(nucs) THEN [exc |-> "none", nucs |-> nucs]
    ELSE LET t == IndexOf(nucs, nucs[r].name)
             res == EobEvaluation(nucs[r])
         IN  IF res.exc # "none" THEN [exc |-> res.exc, nucs |-> nucs]
             ELSE EvaluateFrom(
                      [nucs EXCEPT ![t].act_eob_eval =
                                       [returned |-> TRUE, act_eob |-> res.act_eob]],
                      r + 1)

\* TargetList.evaluate_eob_activites, for the target
EvaluateEobActivities ==
    /\ exc = "none"
    /\ pc.at = "done"
    /\ LET res == EvaluateFrom(radionuclides, 1)
       IN  /\ radionuclides' = res.nucs
           /\ exc' = res.exc
           /\ pc' = IF res.exc = "none" THEN [at |-> "evaluated", i |-> 1, r |-> 1] ELSE pc
    /\ UNCHANGED <<sideVars, listVars, xsVars, inputs, current_report, measurements>>

Init ==
    /\ NoCalls
    /\ \E run \in Runs :
          /\ software = run.software
          /\ variant = run.variant
          /\ directory = run.directory
    /\ target_id = <<"t1">>
    /\ current_report = Report(<< >>)
    /\ radionuclides = LoadRadionuclides(variant, TargetMaterial)
    /\ measurements = << >>
    /\ pc = [at |-> "load", i |-> 1, r |-> 1]
    /\ exc = "none"
    /\ NoCollections
    /\ NoPrediction

Next ==
    \/ LoadReport
    \/ SortMeasurements
    \/ CalculateCoolingTime
    \/ CalculateActivity
    \/ CalculateEobAct
    \/ CalculateMeanActEob
    \/ EvaluateEobActivities
    \/ RepeatMeanActEob

Spec == Init /\ [][Next]_vars

\* ------------------------------------------------------------------------
\* Operations on the collections
\* ------------------------------------------------------------------------
\* what an operation is given: a plain list or a tuple of items, or one of
\* the collections as it is
Arguments ==
    [cls : {"list", "tuple"}, items : SeqsUpTo(ItemTypes, MaxItems)]
        \cup {[cls |-> c, items |-> collections[c]] : c \in Collections}

\* cls(list_): on an exception the name keeps the collection it had
Construct ==
    /\ \E cls \in Collections, list_ \in Arguments :
          LET res == IF cls = "RadionuclideList" THEN RadionuclideList_init(list_)
                     ELSE IF cls = "MeasurementList" THEN MeasurementList_init(list_)
                     ELSE TargetList_init(list_)
          IN  /\ collections' = [collections EXCEPT
                                    ![cls] = IF res.exc = "none" THEN res.items ELSE @]
              /\ raised' = res.exc
    /\ UNCHANGED <<sideVars, analysisVars, xsVars>>

\* collection.append(item); the exception of an operation is reported to
\* the caller, who goes on with the collections
ListAppend ==
    /\ \E cls \in Collections, item \in ItemTypes :
          LET self == collections[cls]
              res == IF cls = "RadionuclideList" THEN RadionuclideList_append(self, item)
                     ELSE IF cls = "MeasurementList" THEN MeasurementList_append(self, item)
                     ELSE TargetList_append(self, item)
          IN  /\ Len(res.items) <= MaxItems
              /\ collections' = [collections EXCEPT ![cls] = res.items]
              /\ raised' = res.exc
    /\ UNCHANGED <<sideVars, analysisVars, xsVars>>

\* collection.insert(index, item)
ListInsert ==
    /\ \E cls \in Collections, index \in 0..MaxItems, item \in ItemTypes :
          LET self == collections[cls]
              res == IF cls = "RadionuclideList"
                     THEN RadionuclideList_insert(self, index, item)
                     ELSE IF cls = "MeasurementList"
                     THEN MeasurementList_insert(self, index, item)
                     ELSE TargetList_insert(self, index, item)
          IN  /\ Len(res.items) <= MaxItems
              /\ collections' = [collections EXCEPT ![cls] = res.items]
              /\ raised' = res.exc
    /\ UNCHANGED <<sideVars, analysisVars, xsVars>>

\* collection.extend(other)
ListExtend ==
    /\ \E cls \in Collections, other \in Arguments :
          LET self == collections[cls]
              res == IF cls = "RadionuclideList" THEN RadionuclideList_extend(self, other)
                     ELSE IF cls = "MeasurementList" THEN MeasurementList_extend(self, other)
                     ELSE TargetList_extend(self, other)
          IN  /\ Len(res.items) <= MaxItems
              /\ collections' = [collections EXCEPT ![cls] = res.items]
              /\ raised' = res.exc
    /\ UNCHANGED <<sideVars, analysisVars, xsVars>>

InitLists == NoAnalysis /\ NoPrediction /\ NoCollections /\ NoCalls

NextLists ==
    \/ Construct
    \/ ListAppend
    \/ ListInsert
    \/ ListExtend

SpecLists == InitLists /\ [][NextLists]_vars

\* ------------------------------------------------------------------------
\* A call of evaluate_eob_activity
\* ------------------------------------------------------------------------
\* load_monitor_cross_section: the test of the name
MatchName ==
    /\ xs_exc = "none"
    /\ xs_pc = "match"
    /\ IF FullMatch(nuclide)
       THEN xs_pc' = "find" /\ UNCHANGED xs_exc
       ELSE xs_exc' = "ValueError" /\ UNCHANGED xs_pc
    /\ UNCHANGED <<sideVars, analysisVars, listVars, nuclide, energy, xs_listing, looked_up,
                   act_eob_eval>>

\* load_monitor_cross_section: the listing of DIR_XS_DATA and the test of
\* the key
FindTable ==
    /\ xs_exc = "none"
    /\ xs_pc = "find"
    /\ looked_up' = TRUE
    /\ IF FilepathsXs(xs_listing, nuclide) # 0
       THEN xs_pc' = "read" /\ UNCHANGED xs_exc
       ELSE xs_exc' = "FileNotFoundError" /\ UNCHANGED xs_pc
    /\ UNCHANGED <<sideVars, analysisVars, listVars, nuclide, energy, xs_listing, act_eob_eval>>

\* load_monitor_cross_section: pd.read_csv and its exceptions
ReadTable ==
    /\ xs_exc = "none"
    /\ xs_pc = "read"
    /\ LET content == xs_listing[FilepathsXs(xs_listing, nuclide)].content
       IN  IF content = "table" THEN xs_pc' = "evaluate" /\ UNCHANGED xs_exc
           ELSE /\ xs_exc' = IF content \in {"empty", "unparsable"} THEN "ValueError"
                             ELSE "IOError"
                /\ UNCHANGED xs_pc
    /\ UNCHANGED <<sideVars, analysisVars, listVars, nuclide, energy, xs_listing, looked_up,
                   act_eob_eval>>

\* interpolate_cross_section and the rest of evaluate_eob_activity: the
\* activity is f_xs(energy) times a factor that depends on the beam, the
\* foil and the nuclide only; it is kept in units of that factor
EvaluateEobActivity ==
    /\ xs_exc = "none"
    /\ xs_pc = "evaluate"
    /\ LET res == f_xs(XsTable, energy)
       IN  IF res.exc = "none"
           THEN /\ act_eob_eval' = [returned |-> TRUE, act_eob |-> res.xs]
                /\ xs_pc' = "returned"
                /\ UNCHANGED xs_exc
           ELSE /\ xs_exc' = res.exc
                /\ UNCHANGED <<xs_pc, act_eob_eval>>
    /\ UNCHANGED <<sideVars, analysisVars, listVars, nuclide, energy, xs_listing, looked_up>>

InitXs ==
    /\ NoCalls
    /\ NoAnalysis
    /\ NoCollections
    /\ nuclide \in SeqsUpTo(NameChars, MaxName)
    /\ energy \in XsEnergies
    /\ xs_listing \in XsListings
    /\ xs_pc = "match"
    /\ xs_exc = "none"
    /\ looked_up = FALSE
    /\ act_eob_eval = [returned |-> FALSE, act_eob |-> 0]

NextXs ==
    \/ MatchName
    \/ FindTable
    \/ ReadTable
    \/ EvaluateEobActivity

SpecXs == InitXs /\ [][NextXs]_vars

\* ------------------------------------------------------------------------
\* core/utils: time_difference and get_lambda_err on what a caller may pass
\* ------------------------------------------------------------------------
\* the timestamps a call is tried with, each the text of an instant in a
\* form: date and time, the same with microseconds, a date alone
Stamps ==
    [form : {"%Y-%m-%d %H:%M:%S"}, secs : 0..MaxSecs, micro : {0}]
    \cup [form : {"%Y-%m-%d %H:%M:%S.%f"}, secs : 0..MaxSecs, micro : {0, 500000}]
    \cup [form : {"%Y-%m-%d"}, secs : {0}, micro : {0}]

\* datetime.strptime: the instant in microseconds, ValueError for a text
\* that is not of the format
strptime(stamp, format) ==
    IF stamp.form = format
    THEN [exc |-> "none", us |-> stamp.secs * 1000000 + stamp.micro]
    ELSE [exc |-> "ValueError", us |-> 0]

\* fault injection: the elapsed time comes without its sign
time_difference_unsigned(date_hour_in, date_hour_end) ==
    LET tmp_in == strptime(date_hour_in, date_hour_in.form)
        tmp_end == strptime(date_hour_end, date_hour_end.form)
    IN  IF date_hour_in.form = "%Y-%m-%d" \/ date_hour_end.form = "%Y-%m-%d"
        THEN [exc |-> "ValueError", returned |-> FALSE, value |-> << >>]
        ELSE [exc |-> "none", returned |-> TRUE,
              value |-> << Rat(Abs(tmp_end.us - tmp_in.us), 1000000) >>]

\* core/utils.time_difference on two texts: each is parsed without
\* microseconds and, when that raises, with them
time_difference_str(date_hour_in, date_hour_end) ==
    LET parse(stamp) ==
            LET first == strptime(stamp, "%Y-%m-%d %H:%M:%S")
            IN  IF first.exc = "none" THEN first
                ELSE strptime(stamp, "%Y-%m-%d %H:%M:%S.%f")
        tmp_date_hour_in == parse(date_hour_in)
        tmp_date_hour_end == parse(date_hour_end)
    IN  IF tmp_date_hour_in.exc # "none"
        THEN [exc |-> tmp_date_hour_in.exc, returned |-> FALSE, value |-> << >>]
        ELSE IF tmp_date_hour_end.exc # "none"
        THEN [exc |-> tmp_date_hour_end.exc, returned |-> FALSE, value |-> << >>]
        ELSE [exc |-> "none", returned |-> TRUE,
              value |-> << Rat(tmp_date_hour_end.us - tmp_date_hour_in.us, 1000000) >>]

\* get_lambda_err of a copy of core/utils, for any unit of measure: the copy
\* of monitor_xs_ip2 ends its chain of tests with a raise, the copy of python
\* has no such branch and reads tmp_hf unassigned
get_lambda_err_in(copy, hf, err_hf, uom) ==
    IF uom \in {"s", "m", "h", "d", "y"}
    THEN LET l == get_lambda_err(hf, err_hf, uom)
         IN  [exc |-> "none", returned |-> TRUE, value |-> << l.Lambda, l.err_Lambda >>]
    ELSE IF copy = "monitor_xs_ip2"
    THEN [exc |-> "ValueError", returned |-> FALSE, value |-> << >>]
    ELSE [exc |-> "UnboundLocalError", returned |-> FALSE, value |-> << >>]

\* the seconds of a unit of measure, 1 for what is no unit
SecondsPer(uom) ==
    IF uom = "m" THEN 60
    ELSE IF uom = "h" THEN 3600
    ELSE IF uom = "d" THEN 86400
    ELSE IF uom = "y" THEN 365 * 86400
    ELSE 1

\* a call of time_difference
TimeDifferenceCall ==
    /\ \E a \in Stamps, b \in Stamps :
          /\ util_call' = [fn |-> "time_difference", copy |-> "monitor_xs_ip2",
                           stamps |-> << a, b >>,
                           hf |-> Zero, err_hf |-> Zero, uom |-> "none"]
          /\ util_result' = time_difference_str(a, b)
    /\ UNCHANGED <<analysisVars, listVars, xsVars, targets, tl_pc, tl_exc>>

\* a call of get_lambda_err of either copy, with a half-life of 1..MaxHalfLife
\* seconds and an error of 0 or 1 second expressed in the unit of measure
GetLambdaErrCall ==
    /\ \E copy \in {"monitor_xs_ip2", "python"},
          uom \in {"s", "m", "h", "d", "y", "ms", ""},
          n \in 1..MaxHalfLife, e \in 0..1 :
          LET hf == Rat(n, SecondsPer(uom))
              err_hf == Rat(e, SecondsPer(uom))
          IN  /\ util_call' = [fn |-> "get_lambda_err", copy |-> copy,
                               stamps |-> << >>,
                               hf |-> hf, err_hf |-> err_hf, uom |-> uom]
              /\ util_result' = get_lambda_err_in(copy, hf, err_hf, uom)
    /\ UNCHANGED <<analysisVars, listVars, xsVars, targets, tl_pc, tl_exc>>

NextUtils ==
    \/ TimeDifferenceCall
    \/ GetLambdaErrCall

\* the calls start from the state in which nothing has been called
SpecUtils == InitLists /\ [][NextUtils]_vars

\* ------------------------------------------------------------------------
\* TargetList: the three methods of the script over a list of targets
\* ------------------------------------------------------------------------
\* TargetList.__getitem__ with a key that is a Target: the first item whose
\* target_id is the key's (Target.__eq__), 0 for KeyError
TargetIndex(ts, key) ==
    IF \E k \in 1..Len(ts) : ts[k].target_id = key.target_id
    THEN CHOOSE k \in 1..Len(ts) :
             /\ ts[k].target_id = key.target_id
             /\ \A h \in 1..(k - 1) : ts[h].target_id # key.target_id
    ELSE 0

\* TargetList.get_acquisition_data; dir_reports[id] is the number of reports
\* that name target id, and a measurement starts without t_cool
get_acquisition_data(ts, dir_reports) ==
    LET RECURSIVE AcquireFrom(_, _, _)
        \* i = 0: target.load_measurements is to be called for target k
        AcquireFrom(cur, k, i) ==
            IF k > Len(cur) THEN [exc |-> "none", targets |-> cur]
            ELSE IF i = 0
            THEN AcquireFrom(
                     [cur EXCEPT ![k].measurements =
                         [n \in 1..dir_reports[cur[k].target_id] |->
                             [t_cool_set |-> FALSE, irr_end |-> 0,
                              act |-> FALSE, act_eob |-> FALSE]]],
                     k, 1)
            ELSE IF i > Len(cur[k].measurements) THEN AcquireFrom(cur, k + 1, 0)
            ELSE LET j == TargetIndex(cur, cur[k])
                 IN  IF i > Len(cur[j].measurements)
                     THEN [exc |-> "IndexError", targets |-> cur]
                     ELSE AcquireFrom(
                              [cur EXCEPT ![j].measurements[i].t_cool_set = TRUE,
                                          ![j].measurements[i].irr_end = cur[k].irr_end],
                              k, i + 1)
    IN  AcquireFrom(ts, 1, 0)

\* TargetList.calculate_activities, a measurement holding one nuclide;
\* m is the measurement of the target the loop is at
calculate_activities(ts) ==
    LET RECURSIVE ActivitiesFrom(_, _, _)
        ActivitiesFrom(cur, k, i) ==
            IF k > Len(cur) THEN [exc |-> "none", targets |-> cur]
            ELSE IF i > Len(cur[k].measurements) THEN ActivitiesFrom(cur, k + 1, 1)
            ELSE LET j == TargetIndex(cur, cur[k])
                     m == cur[k].measurements[i]
                     with_act == [cur EXCEPT ![j].measurements[i].act = TRUE]
                 IN  IF i > Len(cur[j].measurements)
                     THEN [exc |-> "IndexError", targets |-> cur]
                     ELSE IF ~m.t_cool_set
                     THEN [exc |-> "AttributeError", targets |-> with_act]
                     ELSE ActivitiesFrom(
                              [with_act EXCEPT ![j].measurements[i].act_eob = TRUE],
                              k, i + 1)
    IN  ActivitiesFrom(ts, 1, 1)

\* TargetList.calculate_mean_activities; a further call of
\* calculate_mean_act_eob on a target with measurements appends to an array
calculate_mean_activities(ts) ==
    LET RECURSIVE MeanCallsFrom(_, _)
        MeanCallsFrom(cur, k) ==
            IF k > Len(cur) THEN [exc |-> "none", targets |-> cur]
            ELSE LET j == TargetIndex(cur, cur[k])
                 IN  IF cur[j].mean_calls > 0 /\ cur[j].measurements # << >>
                     THEN [exc |-> "AttributeError", targets |-> cur]
                     ELSE MeanCallsFrom([cur EXCEPT ![j].mean_calls = @ + 1], k + 1)
    IN  MeanCallsFrom(ts, 1)

\* targets = TargetList([Target(...), ...]) of the script: the rows of the
\* sheet of irradiations, which may repeat a target number
ConstructTargetList ==
    /\ tl_pc = "construct"
    /\ \E n \in 1..MaxTargets :
          \E ids \in [1..n -> {"t1", "t2"}], ends \in [1..n -> {0, 1}] :
             targets' = [k \in 1..n |->
                            [target_id |-> ids[k], irr_end |-> ends[k],
                             measurements |-> << >>, mean_calls |-> 0]]
    /\ tl_pc' = "acquire"
    /\ UNCHANGED <<analysisVars, listVars, xsVars, util_call, util_result, tl_exc>>

\* targets.get_acquisition_data(...) of the script
GetAcquisitionData ==
    /\ tl_pc = "acquire"
    /\ tl_exc = "none"
    /\ \E dir_reports \in [{"t1", "t2"} -> 0..MaxReports] :
          LET res == get_acquisition_data(targets, dir_reports)
          IN  /\ targets' = res.targets
              /\ tl_exc' = res.exc
              /\ tl_pc' = IF res.exc = "none" THEN "activities" ELSE tl_pc
    /\ UNCHANGED <<analysisVars, listVars, xsVars, util_call, util_result>>

\* targets.calculate_activities() of the script
CalculateActivities ==
    /\ tl_pc = "activities"
    /\ tl_exc = "none"
    /\ LET res == calculate_activities(targets)
       IN  /\ targets' = res.targets
           /\ tl_exc' = res.exc
           /\ tl_pc' = IF res.exc = "none" THEN "means" ELSE tl_pc
    /\ UNCHANGED <<analysisVars, listVars, xsVars, util_call, util_result>>

\* targets.calculate_mean_activities() of the script
CalculateMeanActivities ==
    /\ tl_pc = "means"
    /\ tl_exc = "none"
    /\ LET res == calculate_mean_activities(targets)
       IN  /\ targets' = res.targets
           /\ tl_exc' = res.exc
           /\ tl_pc' = IF res.exc = "none" THEN "done" ELSE tl_pc
    /\ UNCHANGED <<analysisVars, listVars, xsVars, util_call, util_result>>

NextTargets ==
    \/ ConstructTargetList
    \/ GetAcquisitionData
    \/ CalculateActivities
    \/ CalculateMeanActivities

\* the script starts with no list of targets
SpecTargets == InitLists /\ [][NextTargets]_vars

\* ------------------------------------------------------------------------
\* Properties
\* ------------------------------------------------------------------------
\* the peaks of a report less than 1.0 away from the line Ey
Within(rep, Ey) == {j \in 1..Len(rep.energy) : Abs(rep.energy[j] - Ey) < Tol}

\* those of them no other is nearer than
Nearest(rep, Ey) ==
    {j \in Within(rep, Ey) :
        \A i \in Within(rep, Ey) : Abs(rep.energy[j] - Ey) <= Abs(rep.energy[i] - Ey)}

\* entry l of the nuclide holds the net area and uncertainty of peak j
FromPeak(nuc, l, rep, j) ==
    /\ nuc.net_counts[l] = rep.net_counts[j]
    /\ nuc.err_net_counts[l] = rep.err_net_counts[j]

\* the entries get_net_counts has recorded for a nuclide
Recorded(nuc) == (1..Len(nuc.net_counts)) \cap (1..Len(nuc.g_energies))

MeasNuclides ==
    {p \in (1..Len(measurements)) \X (1..Len(NuclideData)) :
        p[2] <= Len(measurements[p[1]].radionuclides)}

Nuc(p) == measurements[p[1]].radionuclides[p[2]]

Rep(p) == measurements[p[1]].report

\* C1: a recorded entry comes from a report peak exactly when some peak of
\* the report is less than 1.0 from the gamma line, and the peak it comes
\* from is less than 1.0 from the line: a peak exactly 1.0 above or below
\* is never taken.
C1_CandidateIffWithinTolerance ==
    \A p \in MeasNuclides : \A l \in Recorded(Nuc(p)) :
        LET w == Within(Rep(p), Nuc(p).g_energies[l])
            from == {j \in 1..Len(Rep(p).energy) : FromPeak(Nuc(p), l, Rep(p), j)}
        IN  /\ (from # {}) <=> (w # {})
            /\ from \subseteq w

C1_Witness ==
    \E p \in MeasNuclides : \E l \in Recorded(Nuc(p)) :
        \E ja, jb, jc \in 1..Len(Rep(p).energy) :
            /\ Rep(p).energy[ja] = Nuc(p).g_energies[l] + Tol
            /\ Rep(p).energy[jb] = Nuc(p).g_energies[l] - Tol
            /\ jc \in Within(Rep(p), Nuc(p).g_energies[l])
            /\ FromPeak(Nuc(p), l, Rep(p), jc)

\* C2: where two or more peaks are within tolerance of a gamma line, the
\* recorded net count and uncertainty are those of a peak no other peak
\* within tolerance is nearer than, in any order of the report.
C2_NearestPeakRecorded ==
    \A p \in MeasNuclides : \A l \in Recorded(Nuc(p)) :
        LET w == Within(Rep(p), Nuc(p).g_energies[l])
        IN  Cardinality(w) >= 2 =>
                \E j \in Nearest(Rep(p), Nuc(p).g_energies[l]) :
                    FromPeak(Nuc(p), l, Rep(p), j)

\* two peaks within tolerance, the nearer one later in the report
C2_Witness ==
    \E p \in MeasNuclides : \E l \in Recorded(Nuc(p)) :
        \E j1, j2 \in Within(Rep(p), Nuc(p).g_energies[l]) :
            /\ j1 < j2
            /\ Nearest(Rep(p), Nuc(p).g_energies[l]) = {j2}
            /\ FromPeak(Nuc(p), l, Rep(p), j2)

\* C3: once get_net_counts is through with a nuclide, every gamma line has
\* exactly one entry, and the entry of a line with no peak within tolerance
\* is net count 0 with uncertainty 0.
C3_SentinelZero ==
    \A p \in MeasNuclides :
        Nuc(p).nc_array =>
            /\ Len(Nuc(p).net_counts) = Len(Nuc(p).g_energies)
            /\ Len(Nuc(p).err_net_counts) = Len(Nuc(p).g_energies)
            /\ \A l \in 1..Len(Nuc(p).g_energies) :
                  Within(Rep(p), Nuc(p).g_energies[l]) = {} =>
                      /\ Nuc(p).net_counts[l] = Zero
                      /\ Nuc(p).err_net_counts[l] = Zero

\* a report with peaks, none of them within tolerance of the line
C3_Witness ==
    \E p \in MeasNuclides : \E l \in Recorded(Nuc(p)) :
        /\ Nuc(p).nc_array
        /\ Rep(p).energy # << >>
        /\ Within(Rep(p), Nuc(p).g_energies[l]) = {}
        /\ Nuc(p).net_counts[l] = Zero

\* the gamma lines of a measurement for which two or more peaks of its
\* report are equally near, and none nearer
TiedLines(i) ==
    {q \in {p \in MeasNuclides : p[1] = i} \X (1..MaxPeaks + MaxMeas) :
        /\ q[2] <= Len(Nuc(q[1]).g_energies)
        /\ Cardinality(Nearest(Rep(q[1]), Nuc(q[1]).g_energies[q[2]])) >= 2}

\* C4: the outcome for a report with two equidistant nearest peaks is
\* always the same one: get_net_counts raises TypeError, which ends the run
\* in load_measurements, and no entry is recorded for the tied line (never
\* one of the peaks, never two entries); without such a tie it does not
\* raise TypeError.
C4_TieRaises ==
    \A i \in 1..Len(measurements) :
        /\ TiedLines(i) # {} =>
              /\ exc = "TypeError" /\ pc.at = "load" /\ i = Len(measurements)
              /\ \A q \in TiedLines(i) : Len(Nuc(q[1]).net_counts) < q[2]
        /\ TiedLines(i) = {} =>
              ~(exc = "TypeError" /\ pc.at = "load" /\ i = Len(measurements))

\* one peak half a unit below the line and one half a unit above
C4_Witness ==
    /\ exc = "TypeError"
    /\ pc.at = "load"
    /\ \E q \in TiedLines(Len(measurements)) :
          \E j1, j2 \in Nearest(Rep(q[1]), Nuc(q[1]).g_energies[q[2]]) :
              Rep(q[1]).energy[j1] < Rep(q[1]).energy[j2]

\* entry l of net_counts is the match of gamma line l
NetCountsAligned(nuc, rep) ==
    \A l \in 1..Len(nuc.g_energies) :
        \/ /\ Within(rep, nuc.g_energies[l]) = {}
           /\ nuc.net_counts[l] = Zero
        \/ \E j \in Within(rep, nuc.g_energies[l]) : FromPeak(nuc, l, rep, j)

\* C5: every sequence a stage has populated is as long as the gamma-line
\* list and entry l belongs to gamma line l: net_counts[l] is the match of
\* line l, act[l] is zero (or nan) exactly where net_counts[l] is zero, and
\* act_eob[l] is zero (or nan) wherever act[l] is zero.
C5_SequencesAligned ==
    \A p \in MeasNuclides :
        LET nuc == Nuc(p)
            n == Len(nuc.g_energies)
        IN  /\ nuc.nc_array =>
                  /\ Len(nuc.net_counts) = n /\ Len(nuc.err_net_counts) = n
                  /\ NetCountsAligned(nuc, Rep(p))
            /\ nuc.act # << >> =>
                  /\ Len(nuc.act) = n /\ Len(nuc.err_act) = n
                  /\ \A l \in 1..n :
                        IsZero(nuc.net_counts[l])
                            <=> (IsZero(nuc.act[l]) \/ IsNaN(nuc.act[l]))
            /\ nuc.act_eob # << >> =>
                  /\ Len(nuc.act_eob) = n /\ Len(nuc.err_act_eob) = n
                  /\ \A l \in 1..n :
                        IsZero(nuc.act[l]) => (IsZero(nuc.act_eob[l]) \/ IsNaN(nuc.act_eob[l]))
                  /\ \A l \in 1..n : ~IsZero(nuc.act[l]) => ~IsZero(nuc.act_eob[l])

\* a nuclide of two gamma lines, several peaks on the first and none on
\* the second, all three stages done
C5_Witness ==
    \E p \in MeasNuclides :
        /\ Len(Nuc(p).g_energies) = 2
        /\ Len(Nuc(p).act_eob) = 2
        /\ Cardinality(Within(Rep(p), Nuc(p).g_energies[1])) >= 2
        /\ Within(Rep(p), Nuc(p).g_energies[2]) = {}
        /\ ~IsZero(Nuc(p).act_eob[1])
        /\ IsZero(Nuc(p).act_eob[2])

\* C6: after calculate_eob_act, the EoB uncertainty of a line whose
\* activity is exactly 0 is exactly 0, at every cooling time.
C6_ZeroActivityZeroEobError ==
    \A p \in MeasNuclides :
        Nuc(p).err_act_eob # << >> =>
            \A l \in 1..Len(Nuc(p).act) :
                IsZero(Nuc(p).act[l]) => Nuc(p).err_act_eob[l] = Zero

\* a line of activity 0 at a cooling time at which exp(Lambda*t_cool) has
\* overflowed, and one at an ordinary cooling time
C6_Witness ==
    /\ \E p \in MeasNuclides : \E l \in 1..Len(Nuc(p).err_act_eob) :
          /\ IsZero(Nuc(p).act[l])
          /\ IsNaN(Nuc(p).act_eob[l])
    /\ \E p \in MeasNuclides : \E l \in 1..Len(Nuc(p).err_act_eob) :
          /\ IsZero(Nuc(p).act[l])
          /\ IsZero(Nuc(p).act_eob[l])
          /\ ~IsZero(measurements[p[1]].t_cool)

\* the EoB activity and uncertainty of the target's nuclide t at its selected
\* gamma line, one pair per measurement, in the order of the measurements
SelectedEob(t) ==
    [i \in 1..Len(measurements) |->
        LET mr == measurements[i].radionuclides[
                      IndexOf(measurements[i].radionuclides, radionuclides[t].name)]
            l == CHOOSE l \in SelectedLines(mr) : TRUE
        IN  [x |-> mr.act_eob[l], err |-> mr.err_act_eob[l]]]

IsNonZeroEob(v) == ~IsZero(v.x)

\* those of them whose EoB activity is not zero
Qualifying(t) == SelectSeq(SelectedEob(t), IsNonZeroEob)

AllFinite(t) ==
    \A i \in 1..Len(SelectedEob(t)) :
        IsFinite(SelectedEob(t)[i].x) /\ IsFinite(SelectedEob(t)[i].err)

\* C7: after calculate_mean_act_eob, a nuclide with more than one
\* measurement of non-zero (finite) EoB activity at its selected line has
\* the inverse-variance weighted mean of those measurements and
\* sqrt(1/sum of weights) as its uncertainty, measurements of zero activity
\* left out.  The code does not keep to this.
C7_MeanOverNonZeroOnly ==
    pc.at = "done" =>
        \A t \in 1..Len(radionuclides) :
            LET q == Qualifying(t)
                x == [j \in 1..Len(q) |-> q[j].x]
                w == Weights([j \in 1..Len(q) |-> q[j].err])
            IN  (AllFinite(t) /\ Len(q) > 1) =>
                    /\ radionuclides[t].mean_act_eob = Average(x, w)
                    /\ radionuclides[t].err_mean_act_eob = Sqrt(Div(One, SumSeq(w)))

\* C8: after calculate_mean_act_eob, a nuclide none of whose measurements
\* has a non-zero EoB activity at the selected line has mean 0 and
\* uncertainty 0, however many measurements there are.  The code does not
\* keep to this.
C8_NoNonZeroMeanZero ==
    pc.at = "done" =>
        \A t \in 1..Len(radionuclides) :
            Len(Qualifying(t)) = 0 =>
                /\ radionuclides[t].mean_act_eob = Zero
                /\ radionuclides[t].err_mean_act_eob = Zero

\* C9: after calculate_mean_act_eob, a nuclide exactly one of whose
\* measurements has a non-zero (finite) EoB activity at the selected line
\* has that activity as its mean and that uncertainty as its uncertainty,
\* among any number of measurements.  The code does not keep to this.
C9_SingleNonZeroVerbatim ==
    pc.at = "done" =>
        \A t \in 1..Len(radionuclides) :
            LET q == Qualifying(t)
            IN  (AllFinite(t) /\ Len(q) = 1) =>
                    /\ radionuclides[t].mean_act_eob = q[1].x
                    /\ radionuclides[t].err_mean_act_eob = q[1].err

\* C10: with non-zero intensities and efficiencies, once the three stages
\* are through with a nuclide whose selected line has no peak within
\* tolerance in the report, the net count, the activity, the EoB activity
\* and the two uncertainties of that line are 0.  The code does not keep to
\* this.
C10_NoPeakAllZero ==
    variant = "regular" =>
        \A p \in MeasNuclides :
            Nuc(p).act_eob # << >> =>
                \A l \in SelectedLines(Nuc(p)) :
                    Within(Rep(p), Nuc(p).g_energies[l]) = {} =>
                        /\ Nuc(p).net_counts[l] = Zero
                        /\ Nuc(p).err_net_counts[l] = Zero
                        /\ Nuc(p).act[l] = Zero
                        /\ Nuc(p).err_act[l] = Zero
                        /\ Nuc(p).act_eob[l] = Zero
                        /\ Nuc(p).err_act_eob[l] = Zero

\* the nuclides of the target whose selected gamma line is not in their
\* gamma-line table
WithoutSelectedLine == {t \in 1..Len(radionuclides) : SelectedLines(radionuclides[t]) = {}}

\* C11: a target whose reference data selects, for a nuclide of its
\* material, a gamma line the nuclide's table does not hold is never
\* constructed: the construction raises, and no report is read and no
\* measurement loaded.  The code does not keep to this.
C11_MissingLineRaisesAtConstruction ==
    WithoutSelectedLine # {} =>
        /\ exc # "none"
        /\ pc = [at |-> "load", i |-> 1, r |-> 1]
        /\ measurements = << >>

\* the required metadata fields of a report, by format, with the kind of
\* line the field's pattern matches
RequiredFields ==
    IF software = "InterWinner"
    THEN { [key |-> "live_time", kind |-> "live"], [key |-> "real_time", kind |-> "real"],
           [key |-> "datetime_meas", kind |-> "date"],
           [key |-> "detector_level", kind |-> "level"] }
    ELSE { [key |-> "tar_id", kind |-> "sample_id"],
           [key |-> "detector_level", kind |-> "detector_level"],
           [key |-> "datetime_meas", kind |-> "acq_time"],
           [key |-> "live_time", kind |-> "live_time"],
           [key |-> "real_time", kind |-> "real_time"] }

\* the file the parser has returned normally from last, while the reports
\* are loaded: the one before position pc.i, or the one at pc.i when
\* load_measurements has raised after parsing it
Parsed ==
    IF pc.at # "load" \/ software \notin {"InterWinner", "Genie2K"} THEN {}
    ELSE IF exc = "none" THEN {pc.i - 1} \ {0}
    ELSE IF exc \in {"AttributeError", "TypeError"} THEN {pc.i}
    ELSE {}

\* C12: a report parser that has returned normally has found the pattern of
\* every required metadata field in the report (target id, detector level,
\* live time, real time, acquisition timestamp): where one is not found it
\* fails instead.  The InterWinner parser does not keep to this.
C12_MissingFieldFails ==
    \A n \in Parsed : \A f \in RequiredFields :
        /\ current_report.filepath = directory[n].filepath
        /\ \E i \in 1..Len(directory[n].lines) : directory[n].lines[i].kind = f.kind

\* the rows of the peak list of a report file, as its format lays them out:
\* InterWinner, the rows after the list by energies with candidate isotopes
\* and before the list with confirmed isotopes; Genie2K, the rows after
\* the header of the peak table
ListedRows(file) ==
    LET lines == file.lines
        n == Len(lines)
        After(kind, i) == \E h \in 1..(i - 1) : lines[h].kind = kind
        Before(kind, i) == \A h \in 1..i : lines[h].kind # kind
        at == IF software = "InterWinner"
              THEN {i \in 1..n : /\ lines[i].kind = InterWinnerRowKind(lines)
                                 /\ After("candidates", i)
                                 /\ Before("confirmed", i)}
              ELSE {i \in 1..n : lines[i].kind = "peak_row" /\ After("peak_header", i)}
        rows == SelectSeq([i \in 1..n |-> i], LAMBDA i : i \in at)
    IN  [k \in 1..Len(rows) |-> lines[rows[k]]]

\* the report file holds every required field, with a date strptime accepts
HasFields(file) ==
    \A f \in RequiredFields :
        \E i \in 1..Len(file.lines) : file.lines[i].kind = f.kind /\ file.lines[i].valid

\* every gamma line of every nuclide of the measurement has net count 0
\* and uncertainty 0
AllZero(m) ==
    \A r \in 1..Len(m.radionuclides) :
        LET nuc == m.radionuclides[r]
        IN  /\ Len(nuc.net_counts) = Len(nuc.g_energies)
            /\ Len(nuc.err_net_counts) = Len(nuc.g_energies)
            /\ \A l \in 1..Len(nuc.g_energies) :
                  nuc.net_counts[l] = Zero /\ nuc.err_net_counts[l] = Zero

\* C13 (as the code has it): a report whose peak list is empty after
\* parsing is parsed without any error or signal, and load_measurements
\* records the acquisition of the target as a Measurement with net count 0
\* and uncertainty 0 for every gamma line of every nuclide.
C13_EmptyPeakListRecorded ==
    /\ (pc.at = "load" /\ exc # "none" /\ software \in {"InterWinner", "Genie2K"}) =>
          ~(ListedRows(directory[pc.i]) = << >> /\ HasFields(directory[pc.i]))
    /\ \A n \in Parsed :
          (/\ exc = "none"
           /\ current_report.energy = << >>
           /\ current_report.tar_id = target_id) =>
              /\ measurements # << >>
              /\ measurements[Len(measurements)].report = current_report
    /\ \A i \in 1..Len(measurements) :
          measurements[i].report.energy = << >> => AllZero(measurements[i])

\* a report without a peak in its list has been parsed and recorded
C13_Witness ==
    /\ \E n \in Parsed : ListedRows(directory[n]) = << >>
    /\ exc = "none"
    /\ measurements # << >>
    /\ measurements[Len(measurements)].report = current_report
    /\ current_report.energy = << >>
    /\ AllZero(measurements[Len(measurements)])

\* C13 (as stated): the parser signals EmptyResultError for an empty peak
\* list, so a parse that returns without any error or signal has found a peak.
C13_EmptySignalled ==
    \A n \in Parsed : current_report.energy # << >>

\* C14: the peak list of a parsed report is the rows of the file that match
\* the row pattern and come after the section header (and, InterWinner,
\* before the line of the list with confirmed isotopes; Genie2K, up to the
\* end of the file), in file order.
C14_RowsBetweenHeaderAndTerminator ==
    \A n \in Parsed :
        LET rows == ListedRows(directory[n])
        IN  /\ current_report.energy = [k \in 1..Len(rows) |-> rows[k].energy]
            /\ current_report.net_counts = [k \in 1..Len(rows) |-> rows[k].net]
            /\ Len(current_report.err_net_counts) = Len(rows)

\* a parsed report with a row before the header, a row in the list, and
\* (InterWinner) a row after the terminator or (Genie2K) a second row after
\* a line of text
C14_Witness ==
    \E n \in Parsed :
        LET lines == directory[n].lines
            rows == {i \in 1..Len(lines) : lines[i].kind \in {"row", "peak_row"}}
        IN  /\ Len(current_report.energy) >= 1
            /\ \E i \in rows : \E h \in (i + 1)..Len(lines) :
                  lines[h].kind \in {"candidates", "peak_header"}
            /\ \/ \E i \in rows : \E h \in 1..(i - 1) : lines[h].kind = "confirmed"
               \/ Len(current_report.energy) >= 2

\* C15 (as stated): a report whose parse fails is skipped and the reports
\* after it are still parsed; the failure never ends the loading with
\* reports left unread.  The code does not keep to this.
C15_BadReportSkipped ==
    ~(/\ pc.at = "load"
      /\ software = "Genie2K"
      /\ exc = "ValueError"
      /\ pc.i < Len(directory))

\* the measurement was taken at a (detector, level) pair without fitted
\* calibration
Uncalibrated(m) ==
    \/ m.detector \notin DOMAIN HPGe_calibration_params
    \/ m.level \notin HPGe_calibration_params[m.detector]

C19_MeasurementsOfTarget ==
    /\ \A i \in 1..Len(measurements) :
          /\ measurements[i].target_id = target_id
          /\ measurements[i].report.tar_id = target_id
          /\ [r \in 1..Len(measurements[i].radionuclides) |->
                 measurements[i].radionuclides[r].name]
               = [r \in 1..Len(radionuclides) |-> radionuclides[r].name]
          /\ {measurements[i].radionuclides[r].name :
                 r \in 1..Len(measurements[i].radionuclides)}
               = NuclideInventory(TargetMaterial)
    /\ \A n \in Parsed :
          current_report.tar_id # target_id =>
              \A i \in 1..Len(measurements) : measurements[i].report # current_report

\* the directory is loaded: a report of another target has been read and
\* left out, a report of the target has become a Measurement
C19_Witness ==
    /\ pc.at = "cool"
    /\ exc = "none"
    /\ measurements # << >>
    /\ \E n \in 1..Len(directory) :
          /\ ReadReport(directory[n]).exc = "none"
          /\ ReadReport(directory[n]).report.tar_id # target_id
          /\ \A i \in 1..Len(measurements) :
                measurements[i].report.filepath # directory[n].filepath

\* the name of the file: what follows the last separator of the path
FileName(filepath) == SplitLast(SplitLast(filepath, "\\"), "/")

\* C20 (as stated): the target id the InterWinner parser takes from the
\* path is the leading token of the file's own name, up to its first
\* underscore, whatever the directory of the file.  The code does not
\* keep to this.
C20_TargetIdFromFileName ==
    software = "InterWinner" =>
        \A n \in Parsed :
            current_report.tar_id = SplitFirst(FileName(current_report.filepath), "_")

\* C17 (as stated): after any sequence of constructions, appends, inserts
\* and extends, every item of a RadionuclideList, a MeasurementList and a
\* TargetList is an instance of the collection's element type.  The code
\* does not keep to this.
C17_HomogeneousCollections ==
    \A cls \in Collections : AllOf(collections[cls], ElementType(cls))

\* the name is Element-MassNumber: one hyphen, letters before it, digits
\* after it, at least one of each
WellFormedName ==
    LET hyphens == {i \in 1..Len(nuclide) : nuclide[i] = "-"}
    IN  /\ Cardinality(hyphens) = 1
        /\ \A h \in hyphens :
              /\ 1 < h /\ h < Len(nuclide)
              /\ \A i \in 1..(h - 1) : nuclide[i] \in Letters
              /\ \A i \in (h + 1)..Len(nuclide) : nuclide[i] \in Digits

\* the directory holds no table for the name
NoTable == \A i \in 1..Len(xs_listing) : SplitFirst(xs_listing[i].name, ".") # nuclide

\* the file read for the name is empty or cannot be parsed
BadTable ==
    /\ ~NoTable
    /\ xs_listing[FilepathsXs(xs_listing, nuclide)].content \in {"empty", "unparsable"}

\* C18: a name that does not fully match Element-MassNumber raises
\* ValueError before any file is looked up; a well-formed name without a
\* table raises FileNotFoundError; an empty table or one that cannot be
\* parsed raises ValueError; in none of these cases is an activity returned.
C18_InvalidInputErrors ==
    /\ ~WellFormedName =>
          /\ xs_pc = "match"
          /\ xs_exc \in {"none", "ValueError"}
          /\ ~looked_up
    /\ (WellFormedName /\ NoTable) =>
          /\ xs_pc \in {"match", "find"}
          /\ xs_exc # "none" => xs_pc = "find" /\ xs_exc = "FileNotFoundError"
    /\ (WellFormedName /\ BadTable) =>
          /\ xs_pc \in {"match", "find", "read"}
          /\ xs_exc # "none" => xs_pc = "read" /\ xs_exc = "ValueError"
    /\ (~WellFormedName \/ NoTable \/ BadTable) => ~act_eob_eval.returned

\* a well-formed name among several tables, the one read for it empty
C18_Witness ==
    /\ WellFormedName
    /\ BadTable
    /\ Len(xs_listing) > 1
    /\ xs_pc = "read"
    /\ xs_exc = "ValueError"
    /\ looked_up
    /\ ~act_eob_eval.returned

\* C23 (as stated): after calculate_activity no element of act or of
\* err_act is NaN.  The code does not keep to this.
C23_NoNaNAfterActivity ==
    \A i \in 1..Len(measurements) :
        \A r \in 1..Len(measurements[i].radionuclides) :
            LET nuc == measurements[i].radionuclides[r]
            IN  /\ \A l \in 1..Len(nuc.act) : ~IsNaN(nuc.act[l])
                /\ \A l \in 1..Len(nuc.err_act) : ~IsNaN(nuc.err_act[l])

\* C24: the stored uncertainty of a net area is absolute: from an
\* InterWinner report net * percent / 100 for the percentage of the row,
\* from a Genie2K report the value of the row unchanged.
C24_AbsoluteUncertainty ==
    \A n \in Parsed :
        LET rows == ListedRows(directory[n])
        IN  /\ Len(current_report.err_net_counts) = Len(rows)
            /\ Len(current_report.net_counts) = Len(rows)
            /\ \A k \in 1..Len(rows) :
                  /\ current_report.net_counts[k] = rows[k].net
                  /\ Mul(current_report.err_net_counts[k], Int2Num(100))
                       = IF software = "InterWinner"
                         THEN Mul(rows[k].net, rows[k].uncert)
                         ELSE Mul(rows[k].uncert, Int2Num(100))

\* a report with a row whose percentage is not 100 (InterWinner), whose
\* uncertainty is not its net area (Genie2K), has been parsed
C24_Witness ==
    \E n \in Parsed :
        /\ current_report.energy # << >>
        /\ current_report.err_net_counts[1] # current_report.net_counts[1]
        /\ ~IsZero(current_report.err_net_counts[1])
        /\ ListedRows(directory[n])[1].uncert # current_report.err_net_counts[1]
              \/ software = "Genie2K"

\* C25 (as stated): every Measurement load_measurements has created has
\* live_time <= real_time.  The code does not keep to this.
C25_LiveTimeWithinRealTime ==
    \A i \in 1..Len(measurements) :
        Sign(Sub(measurements[i].real_time, measurements[i].live_time)) >= 0

\* the files of the directory that are reports of the target: what
\* load_measurements has appended once it is over
Loaded == {n \in 1..Len(directory) : ReadReport(directory[n]).report.tar_id = target_id}

\* C30: after load_measurements the measurements are in the order of
\* non-decreasing acquisition time, whatever the order of the listing, and
\* measurements of equal time are in listing order: when load_measurements
\* has returned, the report of file n is at its rank by acquisition time
\* and, at equal times, by place in the listing.
C30_SortedStable ==
    /\ (pc.at # "load") =>
          \A i \in 1..(Len(measurements) - 1) :
              measurements[i].meas_date <= measurements[i + 1].meas_date
    /\ (pc.at = "cool") =>
          LET listed == [n \in 1..Len(directory) |-> ReadReport(directory[n]).report]
              loaded == {n \in 1..Len(directory) : listed[n].tar_id = target_id}
              rank(n) ==
                  1 + Cardinality({k \in loaded :
                          \/ listed[k].datetime_meas < listed[n].datetime_meas
                          \/ /\ listed[k].datetime_meas = listed[n].datetime_meas
                             /\ k < n})
          IN  /\ Len(measurements) = Cardinality(loaded)
              /\ \A n \in loaded : measurements[rank(n)].report = listed[n]

\* loaded: a listing with a later acquisition before an earlier one and
\* two acquisitions of one time, all of the target
C30_Witness ==
    /\ pc.at = "cool"
    /\ Len(measurements) = 3
    /\ Loaded = 1..3
    /\ ReadReport(directory[1]).report.datetime_meas
         > ReadReport(directory[2]).report.datetime_meas
    /\ measurements[1].meas_date = measurements[2].meas_date
    /\ measurements[1].report # measurements[2].report

\* the stages a nuclide of a measurement has been through
Matched(nuc) == nuc.nc_array

HasActivity(nuc) == nuc.act # << >>

HasEobActivity(nuc) == nuc.act_eob # << >>

\* the target's aggregation has started
Aggregating ==
    \/ pc.at \in {"done", "evaluated", "again"}
    \/ pc.at = "mean" /\ exc # "none"
    \/ \E t \in 1..Len(radionuclides) :
          radionuclides[t].eob_array \/ radionuclides[t].act_eob # << >>

Means ==
    [t \in 1..Len(radionuclides) |->
        <<radionuclides[t].mean_act_eob, radionuclides[t].err_mean_act_eob>>]

\* C29: a further call of calculate_mean_act_eob on the target leaves
\* mean_act_eob and err_mean_act_eob of every nuclide as the first call
\* left them, whether the further call returns or raises.
C29_RepeatLeavesMeans ==
    [][RepeatMeanActEob => Means' = Means]_vars

\* a further call has raised on a target of two measurements whose mean
\* activity and error are not zero
C29_Witness ==
    /\ pc.at = "again"
    /\ exc = "AttributeError"
    /\ Len(measurements) >= 2
    /\ \E t \in 1..Len(radionuclides) :
          /\ IsFinite(radionuclides[t].mean_act_eob)
          /\ ~IsZero(radionuclides[t].mean_act_eob)
          /\ IsFinite(radionuclides[t].err_mean_act_eob)
          /\ ~IsZero(radionuclides[t].err_mean_act_eob)

\* the call made last is time_difference(a, b) with both texts in a form
\* the function accepts
AcceptedStamps ==
    /\ util_call.fn = "time_difference"
    /\ \A k \in 1..2 : util_call.stamps[k].form # "%Y-%m-%d"

\* C21: time_difference is antisymmetric on the forms it accepts:
\* time_difference(a, b) is minus time_difference(b, a), and
\* time_difference(a, a) is 0.
C21_Antisymmetric ==
    AcceptedStamps =>
        LET a == util_call.stamps[1]
            b == util_call.stamps[2]
            back == time_difference_str(b, a)
        IN  /\ util_result.returned /\ back.returned
            /\ util_result.value[1] = Neg(back.value[1])
            /\ Add(util_result.value[1], back.value[1]) = Zero
            /\ (a = b) => IsZero(util_result.value[1])

\* a call on a text with microseconds and a later one without has returned
\* a negative time that is no whole number of seconds
C21_Witness ==
    /\ AcceptedStamps
    /\ util_call.stamps[1].form # util_call.stamps[2].form
    /\ util_result.returned
    /\ Sign(util_result.value[1]) < 0
    /\ util_result.value[1].d # 1

\* the call made last is get_lambda_err with one of the five units
KnownUnit ==
    /\ util_call.fn = "get_lambda_err"
    /\ util_call.uom \in {"s", "m", "h", "d", "y"}

\* the factors of the units: 60, 3600, 86400 and 365*86400 seconds
ClaimedFactor(uom) ==
    CASE uom = "s" -> 1
      [] uom = "m" -> 60
      [] uom = "h" -> 3600
      [] uom = "d" -> 86400
      [] uom = "y" -> 365 * 86400

\* C22: get_lambda_err is unit-consistent: a half-life and its error given
\* in m, h, d or y yield the decay constant and the uncertainty that the
\* same half-life and error given in seconds yield.
C22_UnitConsistent ==
    KnownUnit =>
        LET f == Int2Num(ClaimedFactor(util_call.uom))
            in_seconds == get_lambda_err_in(util_call.copy, Mul(util_call.hf, f),
                                            Mul(util_call.err_hf, f), "s")
        IN  /\ util_result.returned
            /\ in_seconds.returned
            /\ util_result.value = in_seconds.value

\* a half-life of two seconds with an error of one, given in days, has
\* yielded a decay constant and an uncertainty that are not zero
C22_Witness ==
    /\ KnownUnit
    /\ util_call.uom = "d"
    /\ util_call.hf = Rat(2, 86400)
    /\ util_call.err_hf = Rat(1, 86400)
    /\ util_result.returned
    /\ ~IsZero(util_result.value[1])
    /\ ~IsZero(util_result.value[2])

\* C27: get_lambda_err raises ValueError for a unit of measure outside
\* s, m, h, d, y and returns no decay constant, in both copies.
C27_UnknownUnitRaisesValueError ==
    (util_call.fn = "get_lambda_err" /\ util_call.uom \notin {"s", "m", "h", "d", "y"})
        => (util_result.exc = "ValueError" /\ ~util_result.returned)

\* C28: after get_acquisition_data every measurement of every target of the
\* list has its t_cool, after calculate_activities its act and act_eob, and
\* after calculate_mean_activities every target has its mean EoB
\* activities, also when two targets carry one target_id.
C28_EveryTargetProcessed ==
    \A k \in 1..Len(targets) :
        /\ \A i \in 1..Len(targets[k].measurements) :
              LET m == targets[k].measurements[i]
              IN  /\ tl_pc \in {"activities", "means", "done"} =>
                        (m.t_cool_set /\ m.irr_end = targets[k].irr_end)
                  /\ tl_pc \in {"means", "done"} => (m.act /\ m.act_eob)
        /\ tl_pc = "done" => targets[k].mean_calls = 1

====
